---- MODULE Spec2Model ----
(***************************************************************************)
(* Model of the langoustine_mcp rule memory: the two tool handlers         *)
(* (rememberDeveloperInstruction, getRelevantRules) running as concurrent  *)
(* requests over the two SQLite tables (user_instructions, rules), with    *)
(* the classifier, the embedding generator and the store free to fail.     *)
(*                                                                         *)
(* Conventions                                                             *)
(*   - a nullable value is NULL, UNDEFINED or Some(v) == <<v>>;            *)
(*   - a text is a sequence of string pieces, a template string is the     *)
(*     concatenation of its pieces, and "text contains s" is "s is one of  *)
(*     the pieces";                                                        *)
(*   - a request yields to other requests exactly at its awaits.           *)
(***************************************************************************)
EXTENDS Integers, Sequences, FiniteSets, TLC

----------------------------------------------------------------------------
(* Bounds *)

\* number of requests (of either kind) issued against one database
MaxReq == 2

\* largest embeddingMaxRetries an embedding client is configured with
MaxEmbeddingRetries == 3

\* largest llmMaxRetries a classifier client is configured with
MaxLlmRetries == 3

----------------------------------------------------------------------------
(* Nullable values and texts *)

\* JS null and SQL NULL
NULL == <<>>

\* JS undefined: an optional field or parameter that was left out
UNDEFINED == <<"undefined", "undefined">>

Some(v) == <<v>>

Val(o) == o[1]

\* !o for a nullable object: null and undefined are falsy, every object is truthy
Falsy(o) == Len(o) # 1

\* `${o}` for a nullable string
Str(o) == IF o = NULL THEN "null" ELSE IF o = UNDEFINED THEN "undefined" ELSE Val(o)

Contains(text, piece) == \E i \in 1..Len(text) : text[i] = piece

\* a thrown value: an Error carrying a message, or something that is not an Error
Err(msg) == [isError |-> TRUE, message |-> msg]

NonError == [isError |-> FALSE, message |-> <<>>]

\* error instanceof Error ? error.message : "Unknown error"
ErrorMessage(e) == IF e.isError THEN e.message ELSE <<"Unknown error">>

----------------------------------------------------------------------------
(* Inputs *)

Reqs == 1..MaxReq

Instructions == {"Always use TypeScript for new files"}

Contexts == {"writing unit tests"}

allowedCategories ==
    {"testing", "naming", "architecture", "documentation", "error-handling",
     "performance", "security", "style", "best-practices"}

\* the declared length of the rules.embedding column: FLOAT[1536]
EmbeddingDimension == 1536

\* a Float32Array of `length` elements: those of head, then zeros
Vector(length, head) == [length |-> length, head |-> head]

\* the embedding vectors the generator may return (scaled to integers)
Vectors == {Vector(EmbeddingDimension, <<1, 0>>), Vector(EmbeddingDimension, <<3, 4>>)}

\* what the awaited llmClient.generateRule resolves to
RuleGenerationResults ==
    {[success |-> TRUE, rule |-> Some([rule_text |-> "Use TypeScript for new files", category |-> c]),
      reason |-> NULL, error |-> NULL] : c \in {"style", "testing"} \cap allowedCategories}
    \cup {[success |-> TRUE, rule |-> NULL,
           reason |-> Some("Too specific: pixel-level adjustment"), error |-> NULL]}
    \cup {[success |-> FALSE, rule |-> NULL, reason |-> NULL,
           error |-> Some("LLM service unavailable")]}

\* what the awaited embeddingClient.generateEmbedding resolves to
EmbeddingResults ==
    {[success |-> TRUE, embedding |-> Some(v), error |-> UNDEFINED] : v \in Vectors}
    \cup {[success |-> FALSE, embedding |-> UNDEFINED,
           error |-> Some("Mock embedding generation failed")]}
    \cup {[success |-> TRUE, embedding |-> UNDEFINED, error |-> UNDEFINED]}

\* what an upstream client or a store statement may throw
Thrown == {Err(<<"boom">>), NonError}

\* the error a failing store statement throws; its message names the statement
StoreFault(statement) == Err(<<"SqliteError: ", statement>>)

TaskDescriptions == {<<" ">>, <<" ", "t">>}

\* maxResults as the caller passes it (UNDEFINED: left out)
MaxResultsValues == {UNDEFINED, Some(0)}

\* similarityThreshold as the caller passes it, in hundredths
SimilarityThresholdValues == {UNDEFINED, Some(101)}

----------------------------------------------------------------------------
(* The store: user_instructions and rules, each a sequence of rows in      *)
(* insertion order.  Rows are never deleted, so AUTOINCREMENT hands out    *)
(* 1, 2, 3, ...                                                            *)

\* lastInsertRowid of the next INSERT
NextRowId(table) == Len(table) + 1

\* DEFAULT CURRENT_TIMESTAMP: the time of the INSERT, as SQLite writes it
CURRENT_TIMESTAMP == Some("YYYY-MM-DD HH:MM:SS")

\* SELECT ... WHERE id = ?  (.get(): the row or undefined), then `row || null`
SelectById(table, id) ==
    IF \E i \in 1..Len(table) : table[i].id = id
    THEN Some(table[CHOOSE i \in 1..Len(table) : table[i].id = id])
    ELSE NULL

\* SQLiteInstructionsRepo.findInstructionById
findInstructionById(instructionsTable, id) == SelectById(instructionsTable, id)

\* SQLiteInstructionsRepo.findInstructionsByRuleId
findInstructionsByRuleId(instructionsTable, ruleId) ==
    SelectSeq(instructionsTable, LAMBDA row : row.rule_id = Some(ruleId))

\* The outcome of a repository call: the table afterwards, and either the
\* value returned or the error thrown.
Returned(table, value) == [table |-> table, threw |-> NULL, value |-> value]

Threw(table, error) == [table |-> table, threw |-> Some(error), value |-> NULL]

\* mutant: the row is read back without the WHERE clause, so it is the
\* oldest instruction that is returned
createInstruction_ReturnsOldest(instructionsTable, instruction, context, fault) ==
    IF fault = "insert" THEN Threw(instructionsTable, StoreFault("INSERT INTO user_instructions"))
    ELSE LET inserted == Append(instructionsTable,
                                [id |-> NextRowId(instructionsTable),
                                 instruction |-> instruction, context |-> context,
                                 inserted_at |-> CURRENT_TIMESTAMP, rule_id |-> NULL])
         IN  IF fault = "select" THEN Threw(inserted, StoreFault("SELECT FROM user_instructions"))
             ELSE Returned(inserted, Some(inserted[1]))

\* SQLiteInstructionsRepo.createInstruction.  fault names the statement
\* that the store fails on: "none", "insert" or "select".
createInstruction(instructionsTable, instruction, context, fault) ==
    IF fault = "insert" THEN Threw(instructionsTable, StoreFault("INSERT INTO user_instructions"))
    ELSE LET instructionId == NextRowId(instructionsTable)
             inserted == Append(instructionsTable,
                                [id |-> instructionId, instruction |-> instruction,
                                 context |-> context, inserted_at |-> CURRENT_TIMESTAMP,
                                 rule_id |-> NULL])
         IN  IF fault = "select" THEN Threw(inserted, StoreFault("SELECT FROM user_instructions"))
             ELSE Returned(inserted, findInstructionById(inserted, instructionId))

\* mutant: the UPDATE without its WHERE clause
updateInstructionRuleId_AllRows(instructionsTable, instructionId, ruleId) ==
    [i \in 1..Len(instructionsTable) |->
        [instructionsTable[i] EXCEPT !.rule_id = Some(ruleId)]]

\* mutant: an upsert, which inserts a row when no row has the id
updateInstructionRuleId_Upsert(instructionsTable, instructionId, ruleId) ==
    IF \E i \in 1..Len(instructionsTable) : instructionsTable[i].id = instructionId
    THEN [i \in 1..Len(instructionsTable) |->
             IF instructionsTable[i].id = instructionId
             THEN [instructionsTable[i] EXCEPT !.rule_id = Some(ruleId)]
             ELSE instructionsTable[i]]
    ELSE Append(instructionsTable,
                [id |-> instructionId, instruction |-> "", context |-> "",
                 inserted_at |-> CURRENT_TIMESTAMP, rule_id |-> Some(ruleId)])

\* mutant: WHERE id = last_insert_rowid(), the row inserted last by anyone
updateInstructionRuleId_LastInserted(instructionsTable, instructionId, ruleId) ==
    [i \in 1..Len(instructionsTable) |->
        IF i = Len(instructionsTable)
        THEN [instructionsTable[i] EXCEPT !.rule_id = Some(ruleId)]
        ELSE instructionsTable[i]]

\* SQLiteInstructionsRepo.updateInstructionRuleId
\* UPDATE user_instructions SET rule_id = ? WHERE id = ?
updateInstructionRuleId(instructionsTable, instructionId, ruleId) ==
    [i \in 1..Len(instructionsTable) |->
        IF instructionsTable[i].id = instructionId
        THEN [instructionsTable[i] EXCEPT !.rule_id = Some(ruleId)]
        ELSE instructionsTable[i]]

\* the columns findRuleById selects: every column of rules but embedding
RuleColumns(row) ==
    [id |-> row.id, rule_text |-> row.rule_text, category |-> row.category,
     context |-> row.context, relevance_score |-> row.relevance_score,
     created_from_instruction_id |-> row.created_from_instruction_id,
     last_applied |-> row.last_applied, instructions_count |-> row.instructions_count,
     inserted_at |-> row.inserted_at]

\* SQLiteRulesRepo.findRuleById
findRuleById(rulesTable, id) ==
    LET row == SelectById(rulesTable, id)
    IN  IF row = NULL THEN NULL ELSE Some(RuleColumns(Val(row)))

\* mutant: context and category change places in the INSERT
RuleRow_SwappedColumns(ruleId, ruleText, category, context, embedding, createdFromInstructionId) ==
    [id |-> ruleId, rule_text |-> ruleText, category |-> context, context |-> category,
     relevance_score |-> 100, instructions_count |-> 1, embedding |-> embedding,
     created_from_instruction_id |-> createdFromInstructionId, last_applied |-> NULL,
     inserted_at |-> CURRENT_TIMESTAMP]

\* mutant: instructions_count is left to the default of its column
RuleRow_DefaultCount(ruleId, ruleText, category, context, embedding, createdFromInstructionId) ==
    [id |-> ruleId, rule_text |-> ruleText, category |-> category, context |-> context,
     relevance_score |-> 100, instructions_count |-> 0, embedding |-> embedding,
     created_from_instruction_id |-> createdFromInstructionId, last_applied |-> NULL,
     inserted_at |-> CURRENT_TIMESTAMP]

\* a rules row as createRule inserts it: the six columns of the INSERT, and
\* the defaults of relevance_score (1.0), last_applied and inserted_at
RuleRow(ruleId, ruleText, category, context, embedding, createdFromInstructionId) ==
    [id |-> ruleId, rule_text |-> ruleText, category |-> category, context |-> context,
     relevance_score |-> 100, instructions_count |-> 1, embedding |-> embedding,
     created_from_instruction_id |-> createdFromInstructionId, last_applied |-> NULL,
     inserted_at |-> CURRENT_TIMESTAMP]

\* mutant: the row is inserted first and the embedding is checked afterwards
createRule_InsertsBeforeEmbedding(rulesTable, ruleText, category, context, createdFromInstructionId, embeddingResult, fault) ==
    LET ruleId == NextRowId(rulesTable)
        failed == ~embeddingResult.success \/ Falsy(embeddingResult.embedding)
        inserted == Append(rulesTable,
                           RuleRow(ruleId, ruleText, category, context,
                                   IF failed THEN NULL
                                   ELSE Some(Val(embeddingResult.embedding)),
                                   createdFromInstructionId))
    IN  IF fault = "insert" THEN Threw(rulesTable, StoreFault("INSERT INTO rules"))
        ELSE IF failed
        THEN Threw(inserted,
                   Err(<<"Failed to generate embedding: ", Str(embeddingResult.error)>>))
        ELSE IF fault = "select" THEN Threw(inserted, StoreFault("SELECT FROM rules"))
        ELSE Returned(inserted, SelectById(inserted, ruleId))

\* mutant: a failed embedding degrades to a rule stored without embedding
createRule_StoresWithoutEmbedding(rulesTable, ruleText, category, context, createdFromInstructionId, embeddingResult, fault) ==
    LET ruleId == NextRowId(rulesTable)
        failed == ~embeddingResult.success \/ Falsy(embeddingResult.embedding)
        inserted == Append(rulesTable,
                           RuleRow(ruleId, ruleText, category, context,
                                   IF failed THEN NULL
                                   ELSE Some(Val(embeddingResult.embedding)),
                                   createdFromInstructionId))
    IN  IF fault = "insert" THEN Threw(rulesTable, StoreFault("INSERT INTO rules"))
        ELSE IF fault = "select" THEN Threw(inserted, StoreFault("SELECT FROM rules"))
        ELSE Returned(inserted, SelectById(inserted, ruleId))

\* mutant: only embeddingResult.success is checked, so a result without
\* embedding reaches embeddingResult.embedding.buffer
createRule_ChecksSuccessOnly(rulesTable, ruleText, category, context, createdFromInstructionId, embeddingResult, fault) ==
    IF ~embeddingResult.success
    THEN Threw(rulesTable,
               Err(<<"Failed to generate embedding: ", Str(embeddingResult.error)>>))
    ELSE IF Falsy(embeddingResult.embedding)
    THEN Threw(rulesTable, Err(<<"Cannot read properties of undefined">>))
    ELSE IF fault = "insert" THEN Threw(rulesTable, StoreFault("INSERT INTO rules"))
    ELSE LET ruleId == NextRowId(rulesTable)
             inserted == Append(rulesTable,
                                RuleRow(ruleId, ruleText, category, context,
                                        Some(Val(embeddingResult.embedding)),
                                        createdFromInstructionId))
         IN  IF fault = "select" THEN Threw(inserted, StoreFault("SELECT FROM rules"))
             ELSE Returned(inserted, SelectById(inserted, ruleId))

\* mutant: a rule whose text is already stored is counted, not inserted
createRule_MergesSameText(rulesTable, ruleText, category, context, createdFromInstructionId, embeddingResult, fault) ==
    IF ~embeddingResult.success \/ Falsy(embeddingResult.embedding)
    THEN Threw(rulesTable,
               Err(<<"Failed to generate embedding: ", Str(embeddingResult.error)>>))
    ELSE IF fault = "insert" THEN Threw(rulesTable, StoreFault("INSERT INTO rules"))
    ELSE IF \E j \in 1..Len(rulesTable) : rulesTable[j].rule_text = ruleText
    THEN LET same == CHOOSE j \in 1..Len(rulesTable) : rulesTable[j].rule_text = ruleText
             merged == [rulesTable EXCEPT ![same].instructions_count = @ + 1]
         IN  Returned(merged, findRuleById(merged, merged[same].id))
    ELSE LET ruleId == NextRowId(rulesTable)
             inserted == Append(rulesTable,
                                RuleRow(ruleId, ruleText, category, context,
                                        Some(Val(embeddingResult.embedding)),
                                        createdFromInstructionId))
         IN  IF fault = "select" THEN Threw(inserted, StoreFault("SELECT FROM rules"))
             ELSE Returned(inserted, findRuleById(inserted, ruleId))

\* SQLiteRulesRepo.createRule, from the point where the awaited
\* generateEmbedding has resolved to embeddingResult.
createRule(rulesTable, ruleText, category, context, createdFromInstructionId, embeddingResult, fault) ==
    IF ~embeddingResult.success \/ Falsy(embeddingResult.embedding)
    THEN Threw(rulesTable,
               Err(<<"Failed to generate embedding: ", Str(embeddingResult.error)>>))
    ELSE IF fault = "insert" THEN Threw(rulesTable, StoreFault("INSERT INTO rules"))
    ELSE LET ruleId == NextRowId(rulesTable)
             inserted == Append(rulesTable,
                                RuleRow(ruleId, ruleText, category, context,
                                        Some(Val(embeddingResult.embedding)),
                                        createdFromInstructionId))
         IN  IF fault = "select" THEN Threw(inserted, StoreFault("SELECT FROM rules"))
             ELSE Returned(inserted, findRuleById(inserted, ruleId))

----------------------------------------------------------------------------
(* Similarity search.  Scores and thresholds are hundredths: 60 is 0.60.   *)

Dot(a, b) ==
    LET sum[i \in 0..Len(a)] == IF i = 0 THEN 0 ELSE sum[i - 1] + a[i] * b[i]
    IN  sum[Len(a)]

\* the norm of a vector, given its non-zero elements; every vector drawn
\* here has an integral norm
Norm(a) ==
    LET square == Dot(a, a)
    IN  CHOOSE k \in 0..square : k * k = square

\* mutant: the distance itself is selected as the score
relevance_score_Distance(embedding, query) ==
    LET norms == Norm(embedding.head) * Norm(query.head)
    IN  IF norms = 0 THEN NULL
        ELSE Some(100 - ((100 * Dot(embedding.head, query.head)) \div norms))

\* (1 - vec_distance_cosine(embedding, ?)): a number, or SQL NULL when a
\* norm is zero (the division yields NaN, which SQLite stores as NULL)
relevance_score(embedding, query) ==
    LET norms == Norm(embedding.head) * Norm(query.head)
    IN  IF norms = 0 THEN NULL
        ELSE Some((100 * Dot(embedding.head, query.head)) \div norms)

\* mutant: the comparison of WHERE is turned around
Qualifies_AtMost(row, query, threshold) ==
    LET score == relevance_score(Val(row.embedding), query)
    IN  score # NULL /\ Val(score) <= threshold

\* WHERE (1 - vec_distance_cosine(embedding, ?)) >= ? : a NULL score fails it
Qualifies(row, query, threshold) ==
    LET score == relevance_score(Val(row.embedding), query)
    IN  score # NULL /\ Val(score) >= threshold

Min(a, b) == IF a <= b THEN a ELSE b

\* mutant: the query without its LIMIT
Limited_NoLimit(limit, n) == n

\* LIMIT ?: the number of rows returned out of n; a negative LIMIT is no limit
Limited(limit, n) == IF limit < 0 THEN n ELSE Min(limit, n)

\* mutant: ORDER BY relevance_score ASC
OrderedByScore_Ascending(rulesTable, query, threshold) ==
    LET matching == {i \in 1..Len(rulesTable) : Qualifies(rulesTable[i], query, threshold)}
        n == Cardinality(matching)
        scoreOf(i) == Val(relevance_score(Val(rulesTable[i].embedding), query))
    IN  {order \in [1..n -> matching] :
            /\ \A j, k \in 1..n : j # k => order[j] # order[k]
            /\ \A j \in 1..n : j < n => scoreOf(order[j]) <= scoreOf(order[j + 1])}

\* the orders of the given rows by non-increasing score: a row of the
\* greatest score first, then the other rows in such an order
RECURSIVE Descending(_, _)
Descending(scoreOf, rows) ==
    IF rows = {} THEN {<<>>}
    ELSE LET first == {i \in rows : \A k \in rows : scoreOf[i] >= scoreOf[k]}
         IN  UNION {{<<i>> \o rest : rest \in Descending(scoreOf, rows \ {i})} : i \in first}

\* the rows of the answer, before LIMIT, in each order that
\* ORDER BY relevance_score DESC allows (ties in any order)
OrderedByScore(rulesTable, query, threshold) ==
    LET matching == {i \in 1..Len(rulesTable) : Qualifies(rulesTable[i], query, threshold)}
        scoreOf == [i \in matching |->
                       Val(relevance_score(Val(rulesTable[i].embedding), query))]
    IN  Descending(scoreOf, matching)

\* SQLiteRulesRepo.findSimilarRules: the answers the query may give.
\* vec_distance_cosine raises an error when the two vectors differ in length;
\* fault is "select" when the store fails on the statement, else "none".
findSimilarRules(rulesTable, embedding, limit, threshold, fault) ==
    IF fault = "select" THEN {Threw(rulesTable, StoreFault("SELECT FROM rules"))}
    ELSE IF \E i \in 1..Len(rulesTable) : Val(rulesTable[i].embedding).length # embedding.length
    THEN {Threw(rulesTable, Err(<<"Vector dimension mismatch">>))}
    ELSE {Returned(rulesTable,
                   [j \in 1..Limited(limit, Len(order)) |->
                       [id |-> rulesTable[order[j]].id,
                        rule_text |-> rulesTable[order[j]].rule_text,
                        category |-> rulesTable[order[j]].category,
                        context |-> rulesTable[order[j]].context,
                        relevance_score |->
                            Val(relevance_score(Val(rulesTable[order[j]].embedding), embedding)),
                        created_from_instruction_id |->
                            rulesTable[order[j]].created_from_instruction_id,
                        last_applied |-> rulesTable[order[j]].last_applied,
                        instructions_count |-> rulesTable[order[j]].instructions_count,
                        inserted_at |-> rulesTable[order[j]].inserted_at]])
            : order \in OrderedByScore(rulesTable, embedding, threshold)}

----------------------------------------------------------------------------
(* Formatting *)

Abs(x) == IF x < 0 THEN -x ELSE x

Sign(x) == IF x < 0 THEN <<"-">> ELSE <<>>

\* `${x}` for a number given in hundredths: 70 is "0.7", 100 is "1", 85 is "0.85"
NumberText(x) ==
    Sign(x) \o <<ToString(Abs(x) \div 100)>>
    \o (IF Abs(x) % 100 = 0 THEN <<>>
        ELSE <<".", ToString((Abs(x) % 100) \div 10)>>
             \o (IF Abs(x) % 10 = 0 THEN <<>> ELSE <<ToString(Abs(x) % 10)>>))

\* x.toFixed(3) for a number given in hundredths: 60 is "0.600"
ToFixed3(x) ==
    Sign(x) \o <<ToString(Abs(x) \div 100), ".", ToString((Abs(x) % 100) \div 10),
                 ToString(Abs(x) % 10), "0">>

\* taskDescription.trim(), a string being the sequence of its characters
RECURSIVE TrimStart(_)
TrimStart(str) ==
    IF str # <<>> /\ Head(str) = " " THEN TrimStart(Tail(str)) ELSE str

RECURSIVE TrimEnd(_)
TrimEnd(str) ==
    IF str # <<>> /\ str[Len(str)] = " " THEN TrimEnd(SubSeq(str, 1, Len(str) - 1)) ELSE str

Trim(str) == TrimEnd(TrimStart(str))

\* similarRules.map(rule => `- **...** (category: ..., relevance: ...)`).join("\n")
RECURSIVE RulesText(_)
RulesText(similarRules) ==
    IF similarRules = <<>> THEN <<>>
    ELSE <<"- **", Head(similarRules).rule_text, "** (category: ",
           Head(similarRules).category, ", relevance: ">>
         \o ToFixed3(Head(similarRules).relevance_score) \o <<")">>
         \o (IF Tail(similarRules) = <<>> THEN <<>> ELSE <<"\n">> \o RulesText(Tail(similarRules)))

----------------------------------------------------------------------------
(* The handlers.  Each operator below is the code a handler runs between   *)
(* two awaits; it yields the handler's next position (pc), the text it     *)
(* resolves with (result) and the error it caught, if any.                 *)

Resolve(text, caught) == [pc |-> "resolved", result |-> Some(text), error |-> caught]

Continue(position) == [pc |-> position, result |-> NULL, error |-> NULL]

\* mutant: the outermost catch rethrows, so the handler's promise rejects
outerCatch_Rethrows(error) == [pc |-> "rejected", result |-> NULL, error |-> Some(error)]

\* the outermost catch of both handlers
outerCatch(error) ==
    Resolve(<<"Unexpected error", ": ">> \o ErrorMessage(error), Some(error))

\* mutant: no try/catch around createInstruction, the outer catch gets the error
catchCreateInstruction_Missing(error) ==
    Resolve(<<"Unexpected error", ": ">> \o ErrorMessage(error), Some(error))

\* rememberDeveloperInstructionHandler: catch around createInstruction
catchCreateInstruction(error) ==
    Resolve(<<"Failed to create instruction", ": ">> \o ErrorMessage(error), Some(error))

\* mutant: the catch around createRule and the link reports the other store step
catchCreateRule_NamesInstruction(error) ==
    Resolve(<<"Failed to create instruction", ": ">> \o ErrorMessage(error), Some(error))

\* mutant: a failure of createRule or of the link starts createRule again
catchCreateRule_StartsOver(error) == Continue("createInstruction")

\* rememberDeveloperInstructionHandler: catch around createRule and the link
catchCreateRule(error) ==
    Resolve(<<"Failed to create rule with embedding", ": ">> \o ErrorMessage(error),
            Some(error))

\* mutant: the instruction is stored before the verdict is looked at
rememberClassified_StoresFirst(ruleGenerationResult, instructionsTable, instruction, context, fault) ==
    LET out == createInstruction(instructionsTable, instruction, context, fault)
    IN  IF out.threw # NULL
        THEN [step |-> catchCreateInstruction(Val(out.threw)),
              table |-> out.table, value |-> NULL]
        ELSE IF ~ruleGenerationResult.success \/ Falsy(ruleGenerationResult.rule)
        THEN [step |-> Resolve(<<"Failed to generate abstract rule", ": ",
                                 Str(ruleGenerationResult.error)>>, NULL),
              table |-> out.table, value |-> NULL]
        ELSE [step |-> Continue("createInstruction"),
              table |-> out.table, value |-> out.value]

\* mutant: the failure message leaves out the classifier's error
rememberClassified_DropsError(ruleGenerationResult, instructionsTable, instruction, context, fault) ==
    IF ~ruleGenerationResult.success \/ Falsy(ruleGenerationResult.rule)
    THEN [step |-> Resolve(<<"Failed to generate abstract rule">>, NULL),
          table |-> instructionsTable, value |-> NULL]
    ELSE LET out == createInstruction(instructionsTable, instruction, context, fault)
         IN  IF out.threw # NULL
             THEN [step |-> catchCreateInstruction(Val(out.threw)),
                   table |-> out.table, value |-> NULL]
             ELSE [step |-> Continue("createInstruction"),
                   table |-> out.table, value |-> out.value]

\* rememberDeveloperInstructionHandler, from the classifier's answer to the
\* await of createInstruction: [step, table, value]
rememberClassified(ruleGenerationResult, instructionsTable, instruction, context, fault) ==
    IF ~ruleGenerationResult.success \/ Falsy(ruleGenerationResult.rule)
    THEN [step |-> Resolve(<<"Failed to generate abstract rule", ": ",
                             Str(ruleGenerationResult.error)>>, NULL),
          table |-> instructionsTable, value |-> NULL]
    ELSE LET out == createInstruction(instructionsTable, instruction, context, fault)
         IN  IF out.threw # NULL
             THEN [step |-> catchCreateInstruction(Val(out.threw)),
                   table |-> out.table, value |-> NULL]
             ELSE [step |-> Continue("createInstruction"),
                   table |-> out.table, value |-> out.value]

\* mutant: createdFromInstructionId is the id of the first instruction
rememberEmbedded_OriginIsFirst(ruleGenerated, context, createdInstruction, rulesTable, embeddingResult, fault) ==
    LET out == createRule(rulesTable, ruleGenerated.rule_text, ruleGenerated.category,
                          context, 1, embeddingResult, fault)
    IN  IF out.threw # NULL
        THEN [step |-> catchCreateRule(Val(out.threw)), table |-> out.table, value |-> NULL]
        ELSE [step |-> Continue("createRule"), table |-> out.table, value |-> out.value]

\* mutant: createdFromInstructionId is given the id the rule itself will get
rememberEmbedded_OriginIsRuleId(ruleGenerated, context, createdInstruction, rulesTable, embeddingResult, fault) ==
    LET out == createRule(rulesTable, ruleGenerated.rule_text, ruleGenerated.category,
                          context, NextRowId(rulesTable), embeddingResult, fault)
    IN  IF out.threw # NULL
        THEN [step |-> catchCreateRule(Val(out.threw)), table |-> out.table, value |-> NULL]
        ELSE [step |-> Continue("createRule"), table |-> out.table, value |-> out.value]

\* rememberDeveloperInstructionHandler, from the embedding generator's
\* answer (inside createRule) to the await of createRule
rememberEmbedded(ruleGenerated, context, createdInstruction, rulesTable, embeddingResult, fault) ==
    LET out == createRule(rulesTable, ruleGenerated.rule_text, ruleGenerated.category,
                          context, createdInstruction.id, embeddingResult, fault)
    IN  IF out.threw # NULL
        THEN [step |-> catchCreateRule(Val(out.threw)), table |-> out.table, value |-> NULL]
        ELSE [step |-> Continue("createRule"), table |-> out.table, value |-> out.value]

\* mutant: updateInstructionRuleId is called with its two ids swapped
rememberLink_SwappedIds(ruleGenerated, createdInstruction, rule, instructionsTable, fault) ==
    IF Falsy(rule)
    THEN [step |-> catchCreateRule(Err(<<"Cannot read properties of null">>)),
          table |-> instructionsTable]
    ELSE IF fault = "update"
    THEN [step |-> catchCreateRule(StoreFault("UPDATE user_instructions")),
          table |-> instructionsTable]
    ELSE [step |-> Resolve(<<"Instruction processed successfully", ". Generated rule: \"",
                             ruleGenerated.rule_text, "\" (category: ",
                             ruleGenerated.category, "). Rule ID: ",
                             ToString(Val(rule).id), ", Instruction ID: ",
                             ToString(createdInstruction.id)>>, NULL),
          table |-> updateInstructionRuleId(instructionsTable, Val(rule).id,
                                            createdInstruction.id)]

\* rememberDeveloperInstructionHandler, from the resolution of createRule
\* to the return: link the instruction to the rule and report both ids
rememberLink(ruleGenerated, createdInstruction, rule, instructionsTable, fault) ==
    IF Falsy(rule)
    THEN [step |-> catchCreateRule(Err(<<"Cannot read properties of null">>)),
          table |-> instructionsTable]
    ELSE IF fault = "update"
    THEN [step |-> catchCreateRule(StoreFault("UPDATE user_instructions")),
          table |-> instructionsTable]
    ELSE [step |-> Resolve(<<"Instruction processed successfully", ". Generated rule: \"",
                             ruleGenerated.rule_text, "\" (category: ",
                             ruleGenerated.category, "). Rule ID: ",
                             ToString(Val(rule).id), ", Instruction ID: ",
                             ToString(createdInstruction.id)>>, NULL),
          table |-> updateInstructionRuleId(instructionsTable, createdInstruction.id,
                                            Val(rule).id)]

\* generateEmbedding resolved to a failure: success = false, or no embedding
EmbeddingFailed(answer) == ~answer.success \/ Falsy(answer.embedding)

\* mutant: the defaults are 10 results and a threshold of 0.7
Default_TenAndSevenTenths(param, value) ==
    IF param = UNDEFINED THEN (IF value = 5 THEN 10 ELSE 70) ELSE Val(param)

\* const { taskDescription, maxResults = 5, similarityThreshold = 0 } = params
Default(param, value) == IF param = UNDEFINED THEN value ELSE Val(param)

\* mutant: the bounds of both ranges are excluded
getRelevantRulesValidate_ExclusiveBounds(taskDescription, maxResults, similarityThreshold) ==
    IF Trim(taskDescription) = <<>>
    THEN Some(<<"Error: taskDescription cannot be empty">>)
    ELSE IF maxResults <= 1 \/ maxResults >= 100
    THEN Some(<<"Error: maxResults must be between 1 and 100">>)
    ELSE IF similarityThreshold <= -100 \/ similarityThreshold >= 100
    THEN Some(<<"Error: similarityThreshold must be between -1 and 1">>)
    ELSE NULL

\* getRelevantRulesHandler: input validation; NULL when the input is valid
getRelevantRulesValidate(taskDescription, maxResults, similarityThreshold) ==
    IF Trim(taskDescription) = <<>>
    THEN Some(<<"Error: taskDescription cannot be empty">>)
    ELSE IF maxResults < 1 \/ maxResults > 100
    THEN Some(<<"Error: maxResults must be between 1 and 100">>)
    ELSE IF similarityThreshold < -100 \/ similarityThreshold > 100
    THEN Some(<<"Error: similarityThreshold must be between -1 and 1">>)
    ELSE NULL

\* mutant: a failed embedding is treated as an empty search result
getRelevantRulesEmbedded_ReportsNoRules(taskDescription, maxResults, similarityThreshold, rulesTable, embeddingResult, fault) ==
    {Resolve(<<"No relevant rules found", " for task description: \"">>
             \o taskDescription \o <<"\" (similarity threshold: ">>
             \o NumberText(similarityThreshold) \o <<")">>, NULL)}

\* getRelevantRulesHandler, from the embedding generator's answer to the
\* return: the steps the handler may take (one per answer of the query)
getRelevantRulesEmbedded(taskDescription, maxResults, similarityThreshold, rulesTable, embeddingResult, fault) ==
    IF ~embeddingResult.success \/ Falsy(embeddingResult.embedding)
    THEN {Resolve(<<"Failed to generate embedding for task description", ": ",
                    Str(embeddingResult.error)>>, NULL)}
    ELSE {IF out.threw # NULL THEN outerCatch(Val(out.threw))
          ELSE IF Len(out.value) = 0
          THEN Resolve(<<"No relevant rules found", " for task description: \"">>
                       \o taskDescription \o <<"\" (similarity threshold: ">>
                       \o NumberText(similarityThreshold) \o <<")">>, NULL)
          ELSE Resolve(<<"Found ", ToString(Len(out.value)), " relevant rules for task: \"">>
                       \o taskDescription \o <<"\"\n\n">> \o RulesText(out.value), NULL)
          : out \in findSimilarRules(rulesTable, Val(embeddingResult.embedding),
                                     maxResults, similarityThreshold, fault)}

----------------------------------------------------------------------------
(* State *)

VARIABLES
    user_instructions,      \* the user_instructions table
    rules,                  \* the rules table
    pc,                     \* per request: the await it is suspended at
    tool,                   \* per request: the handler it runs
    args,                   \* per request: the handler's parameters
    ruleGenerationResult,   \* per request: what generateRule resolved to
    createdInstruction,     \* per request: the row createInstruction returned
    embeddingResult,        \* per request: what generateEmbedding resolved to
    rule,                   \* per request: the row createRule returned
    error,                  \* per request: the error a catch block caught
    result,                 \* per request: the text the handler resolved with
    embeddingCalls,         \* per request: its calls of generateEmbedding
    storeQueries,           \* per request: its calls of findSimilarRules
    embeddingClient,        \* one call of OpenAIEmbeddingClient.generateEmbedding
    llmClient,              \* one call of OpenAIClient.generateRule
    repoCall                \* the latest call of a repository method by a test

\* the two upstream clients; the handlers see only what their calls resolve to
clients == <<embeddingClient, llmClient>>

\* the state of the handlers' requests
requests == <<pc, tool, args, ruleGenerationResult, createdInstruction, embeddingResult,
              rule, error, result, embeddingCalls, storeQueries>>

\* the handlers' requests and the two tables
handlers == <<user_instructions, rules, pc, tool, args, ruleGenerationResult,
              createdInstruction, embeddingResult, rule, error, result, embeddingCalls,
              storeQueries>>

vars == <<handlers, clients, repoCall>>

\* no request has arrived
InitRequests ==
    /\ pc = [r \in Reqs |-> "idle"]
    /\ tool = [r \in Reqs |-> "none"]
    /\ args = [r \in Reqs |-> NULL]
    /\ ruleGenerationResult = [r \in Reqs |-> NULL]
    /\ createdInstruction = [r \in Reqs |-> NULL]
    /\ embeddingResult = [r \in Reqs |-> NULL]
    /\ rule = [r \in Reqs |-> NULL]
    /\ error = [r \in Reqs |-> NULL]
    /\ result = [r \in Reqs |-> NULL]
    /\ embeddingCalls = [r \in Reqs |-> 0]
    /\ storeQueries = [r \in Reqs |-> 0]

\* no request has arrived, the database is freshly initialized
InitHandlers ==
    /\ user_instructions = <<>>
    /\ rules = <<>>
    /\ InitRequests

Init ==
    /\ InitHandlers
    /\ embeddingClient = NULL
    /\ llmClient = NULL
    /\ repoCall = NULL

\* requests are numbered in their order of arrival
Arrives(r) ==
    /\ pc[r] = "idle"
    /\ \A q \in Reqs : q < r => pc[q] # "idle"

\* request r takes the step a handler operator computed
Take(r, step) ==
    /\ pc' = [pc EXCEPT ![r] = step.pc]
    /\ result' = [result EXCEPT ![r] = step.result]
    /\ error' = [error EXCEPT ![r] = step.error]

----------------------------------------------------------------------------
(* rememberDeveloperInstructionHandler *)

\* the host calls the tool: the handler calls llmClient.generateRule and awaits it
Remember_Call(r) ==
    /\ Arrives(r)
    /\ \E instruction \in Instructions, context \in Contexts :
          args' = [args EXCEPT ![r] = [instruction |-> instruction, context |-> context]]
    /\ tool' = [tool EXCEPT ![r] = "rememberDeveloperInstruction"]
    /\ pc' = [pc EXCEPT ![r] = "generateRule"]
    /\ UNCHANGED <<clients, repoCall, storeQueries, user_instructions, rules, ruleGenerationResult, createdInstruction,
                   embeddingResult, rule, error, result, embeddingCalls>>

\* generateRule resolves: check the verdict, create the instruction
Remember_GenerateRuleReturns(r) ==
    /\ pc[r] = "generateRule"
    /\ \E answer \in RuleGenerationResults, fault \in {"none", "insert", "select"} :
          LET next == rememberClassified(answer, user_instructions, args[r].instruction,
                                         args[r].context, fault)
          IN  /\ ruleGenerationResult' = [ruleGenerationResult EXCEPT ![r] = Some(answer)]
              /\ user_instructions' = next.table
              /\ createdInstruction' = [createdInstruction EXCEPT ![r] = next.value]
              /\ Take(r, next.step)
    /\ UNCHANGED <<clients, repoCall, storeQueries, rules, tool, args, embeddingResult, rule, embeddingCalls>>

\* generateRule rejects: the outer catch
Remember_GenerateRuleThrows(r) ==
    /\ pc[r] = "generateRule"
    /\ \E thrown \in Thrown : Take(r, outerCatch(thrown))
    /\ UNCHANGED <<clients, repoCall, storeQueries, user_instructions, rules, tool, args, ruleGenerationResult,
                   createdInstruction, embeddingResult, rule, embeddingCalls>>

\* createInstruction has resolved: call createRule, which calls
\* embeddingClient.generateEmbedding and awaits it
Remember_CreateRuleCall(r) ==
    /\ pc[r] = "createInstruction"
    /\ embeddingCalls' = [embeddingCalls EXCEPT ![r] = @ + 1]
    /\ pc' = [pc EXCEPT ![r] = "generateEmbedding"]
    /\ UNCHANGED <<clients, repoCall, storeQueries, user_instructions, rules, tool, args, ruleGenerationResult,
                   createdInstruction, embeddingResult, rule, error, result>>

\* generateEmbedding resolves inside createRule: check it, insert the rule
Remember_GenerateEmbeddingReturns(r) ==
    /\ pc[r] = "generateEmbedding"
    /\ \E answer \in EmbeddingResults, fault \in {"none", "insert", "select"} :
          LET next == rememberEmbedded(Val(Val(ruleGenerationResult[r]).rule),
                                       args[r].context, Val(createdInstruction[r]),
                                       rules, answer, fault)
          IN  /\ embeddingResult' = [embeddingResult EXCEPT ![r] = Some(answer)]
              /\ rules' = next.table
              /\ rule' = [rule EXCEPT ![r] = next.value]
              /\ Take(r, next.step)
    /\ UNCHANGED <<clients, repoCall, storeQueries, user_instructions, tool, args, ruleGenerationResult,
                   createdInstruction, embeddingCalls>>

\* generateEmbedding rejects: createRule rejects with the same error
Remember_GenerateEmbeddingThrows(r) ==
    /\ pc[r] = "generateEmbedding"
    /\ \E thrown \in Thrown : Take(r, catchCreateRule(thrown))
    /\ UNCHANGED <<clients, repoCall, storeQueries, user_instructions, rules, tool, args, ruleGenerationResult,
                   createdInstruction, embeddingResult, rule, embeddingCalls>>

\* createRule has resolved: link the instruction to the rule and return
Remember_Link(r) ==
    /\ pc[r] = "createRule"
    /\ \E fault \in {"none", "update"} :
          LET next == rememberLink(Val(Val(ruleGenerationResult[r]).rule),
                                   Val(createdInstruction[r]), rule[r],
                                   user_instructions, fault)
          IN  /\ user_instructions' = next.table
              /\ Take(r, next.step)
    /\ UNCHANGED <<clients, repoCall, storeQueries, rules, tool, args, ruleGenerationResult, createdInstruction,
                   embeddingResult, rule, embeddingCalls>>

----------------------------------------------------------------------------
(* getRelevantRulesHandler *)

\* the host calls the tool with parameters of the given sets: validate, then
\* call generateEmbedding and await it
GetRelevantRules_CallWith(r, taskDescriptions, maxResultsValues, similarityThresholdValues) ==
    /\ Arrives(r)
    /\ tool' = [tool EXCEPT ![r] = "getRelevantRules"]
    /\ \E taskDescription \in taskDescriptions, maxResults \in maxResultsValues,
          similarityThreshold \in similarityThresholdValues :
          LET invalid == getRelevantRulesValidate(taskDescription, Default(maxResults, 5),
                                                  Default(similarityThreshold, 0))
          IN  /\ args' = [args EXCEPT ![r] =
                             [params |-> [maxResults |-> maxResults,
                                          similarityThreshold |-> similarityThreshold],
                              taskDescription |-> taskDescription,
                              maxResults |-> Default(maxResults, 5),
                              similarityThreshold |-> Default(similarityThreshold, 0)]]
              /\ IF invalid # NULL
                 THEN /\ Take(r, Resolve(Val(invalid), NULL))
                      /\ UNCHANGED embeddingCalls
                 ELSE /\ Take(r, Continue("queryEmbedding"))
                      /\ embeddingCalls' = [embeddingCalls EXCEPT ![r] = @ + 1]
    /\ UNCHANGED <<clients, repoCall, storeQueries, user_instructions, rules, ruleGenerationResult, createdInstruction,
                   embeddingResult, rule>>

GetRelevantRules_Call(r) ==
    GetRelevantRules_CallWith(r, TaskDescriptions, MaxResultsValues, SimilarityThresholdValues)

\* generateEmbedding resolves: run the similarity search and format the answer
GetRelevantRules_GenerateEmbeddingReturns(r) ==
    /\ pc[r] = "queryEmbedding"
    /\ \E answer \in EmbeddingResults, fault \in {"none", "select"} :
          /\ embeddingResult' = [embeddingResult EXCEPT ![r] = Some(answer)]
          /\ storeQueries' = [storeQueries EXCEPT ![r] =
                                 IF EmbeddingFailed(answer) THEN @ ELSE @ + 1]
          /\ \E step \in getRelevantRulesEmbedded(args[r].taskDescription, args[r].maxResults,
                                                  args[r].similarityThreshold, rules, answer,
                                                  fault) :
                Take(r, step)
    /\ UNCHANGED <<clients, repoCall, user_instructions, rules, tool, args, ruleGenerationResult,
                   createdInstruction, rule, embeddingCalls>>

\* generateEmbedding rejects: the outer catch
GetRelevantRules_GenerateEmbeddingThrows(r) ==
    /\ pc[r] = "queryEmbedding"
    /\ \E thrown \in Thrown : Take(r, outerCatch(thrown))
    /\ UNCHANGED <<clients, repoCall, storeQueries, user_instructions, rules, tool, args, ruleGenerationResult,
                   createdInstruction, embeddingResult, rule, embeddingCalls>>

----------------------------------------------------------------------------

Next ==
    \E r \in Reqs :
        \/ Remember_Call(r)
        \/ Remember_GenerateRuleReturns(r)
        \/ Remember_GenerateRuleThrows(r)
        \/ Remember_CreateRuleCall(r)
        \/ Remember_GenerateEmbeddingReturns(r)
        \/ Remember_GenerateEmbeddingThrows(r)
        \/ Remember_Link(r)
        \/ GetRelevantRules_Call(r)
        \/ GetRelevantRules_GenerateEmbeddingReturns(r)
        \/ GetRelevantRules_GenerateEmbeddingThrows(r)

Spec == Init /\ [][Next]_vars

----------------------------------------------------------------------------
(* getRelevantRulesHandler called with parameters at and around the bounds *)
(* of its validation, against the empty rules table.                       *)

\* maxResults at and next to the bounds of [1, 100]
BoundaryMaxResults == {UNDEFINED, Some(0), Some(1), Some(100), Some(101)}

\* similarityThreshold (hundredths) at and next to the bounds of [-1, 1]
BoundarySimilarityThresholds == {UNDEFINED, Some(-101), Some(-100), Some(100), Some(101)}

GetRelevantRules_CallAtBounds(r) ==
    GetRelevantRules_CallWith(r, TaskDescriptions, BoundaryMaxResults,
                              BoundarySimilarityThresholds)

NextValidation ==
    \E r \in Reqs :
        \/ GetRelevantRules_CallAtBounds(r)
        \/ GetRelevantRules_GenerateEmbeddingReturns(r)
        \/ GetRelevantRules_GenerateEmbeddingThrows(r)

SpecValidation == Init /\ [][NextValidation]_vars

----------------------------------------------------------------------------
(* The two repositories called directly, as their tests call them, by one  *)
(* caller against one database.  repoCall records the latest call: the     *)
(* method, its parameters, the two tables before the call, and what the    *)
(* call returned or threw.                                                 *)

\* rows a test inserts into each table
MaxRows == 2

\* the ids a caller passes: those of rows, and one that no row has
RowIds == 1..(MaxRows + 1)

RuleTexts == {"Use TypeScript for new files"}

\* the embeddings of stored rules: those of Vectors, one of another length
\* (a generator set to another model, or a mock's custom embedding), and
\* the mock's default embedding, which is all zeros
RepoVectors ==
    Vectors \cup {Vector(2 * EmbeddingDimension, <<1, 0>>),
                  Vector(EmbeddingDimension, <<0, 0>>)}

\* what generateEmbedding resolves to when a test calls createRule: an
\* embedding of the declared length, one of another length, or a failure
RepoEmbeddingResults ==
    {[success |-> TRUE, embedding |-> Some(Vector(n, <<1, 0>>)), error |-> UNDEFINED] :
        n \in {EmbeddingDimension, 2 * EmbeddingDimension}}
    \cup {[success |-> FALSE, embedding |-> UNDEFINED,
           error |-> Some("Mock embedding generation failed")]}

\* the embeddings searched for: close to the stored ones, opposite to them,
\* all zeros (the mock's default embedding), and one of another length
QueryVectors ==
    {Vector(EmbeddingDimension, <<3, 4>>), Vector(EmbeddingDimension, <<-1, 0>>),
     Vector(EmbeddingDimension, <<0, 0>>), Vector(2 * EmbeddingDimension, <<1, 0>>)}

\* limit as the caller passes it
Limits == {-1, 0, 1, 5}

\* threshold as the caller passes it, in hundredths
Thresholds == {-100, 0, 61, 101}

RepoCall(op, params, threw, value) ==
    Some([op |-> op, params |-> params,
          before |-> [user_instructions |-> user_instructions, rules |-> rules],
          threw |-> threw, value |-> value])

HasRow(table, id) == \E i \in 1..Len(table) : table[i].id = id

Repo_CreateInstruction ==
    /\ Len(user_instructions) < MaxRows
    /\ \E instruction \in Instructions, context \in Contexts,
          fault \in {"none", "insert", "select"} :
          LET out == createInstruction(user_instructions, instruction, context, fault)
          IN  /\ user_instructions' = out.table
              /\ repoCall' = RepoCall("createInstruction",
                                      [instruction |-> instruction, context |-> context],
                                      out.threw, out.value)
    /\ UNCHANGED <<rules, requests, clients>>

Repo_FindInstructionById ==
    /\ \E id \in RowIds :
          repoCall' = RepoCall("findInstructionById", [id |-> id], NULL,
                               findInstructionById(user_instructions, id))
    /\ UNCHANGED <<user_instructions, rules, requests, clients>>

\* rule_id REFERENCES rules(id): a row is only ever given the id of a rule
Repo_UpdateInstructionRuleId ==
    /\ \E instructionId \in RowIds, ruleId \in RowIds :
          /\ HasRow(user_instructions, instructionId) => HasRow(rules, ruleId)
          /\ user_instructions' = updateInstructionRuleId(user_instructions, instructionId,
                                                          ruleId)
          /\ repoCall' = RepoCall("updateInstructionRuleId",
                                  [instructionId |-> instructionId, ruleId |-> ruleId],
                                  NULL, UNDEFINED)
    /\ UNCHANGED <<rules, requests, clients>>

\* created_from_instruction_id REFERENCES user_instructions(id): the tests
\* create the instruction first
Repo_CreateRule ==
    /\ Len(rules) < MaxRows
    /\ \E ruleText \in RuleTexts, category \in {"style"}, context \in Contexts,
          createdFromInstructionId \in RowIds, answer \in RepoEmbeddingResults,
          fault \in {"none", "insert", "select"} :
          /\ HasRow(user_instructions, createdFromInstructionId)
          /\ LET out == createRule(rules, ruleText, category, context,
                                   createdFromInstructionId, answer, fault)
             IN  /\ rules' = out.table
                 /\ repoCall' = RepoCall("createRule",
                                         [ruleText |-> ruleText, category |-> category,
                                          context |-> context,
                                          createdFromInstructionId |-> createdFromInstructionId,
                                          embeddingResult |-> answer],
                                         out.threw, out.value)
    /\ UNCHANGED <<user_instructions, requests, clients>>

Repo_FindRuleById ==
    /\ \E id \in RowIds :
          repoCall' = RepoCall("findRuleById", [id |-> id], NULL, findRuleById(rules, id))
    /\ UNCHANGED <<user_instructions, rules, requests, clients>>

Repo_FindSimilarRules ==
    /\ \E embedding \in QueryVectors, limit \in Limits, threshold \in Thresholds,
          fault \in {"none", "select"} :
          \E out \in findSimilarRules(rules, embedding, limit, threshold, fault) :
              repoCall' = RepoCall("findSimilarRules",
                                   [embedding |-> embedding, limit |-> limit,
                                    threshold |-> threshold],
                                   out.threw, out.value)
    /\ UNCHANGED <<user_instructions, rules, requests, clients>>

NextRepos ==
    \/ Repo_CreateInstruction
    \/ Repo_FindInstructionById
    \/ Repo_UpdateInstructionRuleId
    \/ Repo_CreateRule
    \/ Repo_FindRuleById

SpecRepos == Init /\ [][NextRepos]_vars

----------------------------------------------------------------------------
(* findSimilarRules called against a database that the remember pipeline   *)
(* has populated: one instruction and one linked rule per embedding.       *)

\* the database after the pipeline stored a rule for each of embeddings
RECURSIVE Populated(_)
Populated(embeddings) ==
    IF embeddings = <<>> THEN [user_instructions |-> <<>>, rules |-> <<>>]
    ELSE LET db == Populated(SubSeq(embeddings, 1, Len(embeddings) - 1))
             instruction == createInstruction(db.user_instructions,
                                              CHOOSE i \in Instructions : TRUE,
                                              CHOOSE c \in Contexts : TRUE, "none")
             created == createRule(db.rules, CHOOSE t \in RuleTexts : TRUE, "style",
                                   CHOOSE c \in Contexts : TRUE, Val(instruction.value).id,
                                   [success |-> TRUE,
                                    embedding |-> Some(embeddings[Len(embeddings)]),
                                    error |-> UNDEFINED], "none")
         IN  [user_instructions |->
                  updateInstructionRuleId(instruction.table, Val(instruction.value).id,
                                          Val(created.value).id),
              rules |-> created.table]

\* the embeddings of up to MaxRows rules, in every order
StoredEmbeddings == UNION {[1..n -> RepoVectors] : n \in 0..MaxRows}

InitSimilarity ==
    /\ InitRequests
    /\ embeddingClient = NULL
    /\ llmClient = NULL
    /\ repoCall = NULL
    /\ \E embeddings \in StoredEmbeddings :
          /\ user_instructions = Populated(embeddings).user_instructions
          /\ rules = Populated(embeddings).rules

NextSimilarity == Repo_FindSimilarRules

SpecSimilarity == InitSimilarity /\ [][NextSimilarity]_vars

----------------------------------------------------------------------------
(* getRelevantRulesHandler called against a database that the remember     *)
(* pipeline has populated, with maxResults and similarityThreshold given   *)
(* or left out.                                                            *)

\* rules in the populated database
MaxRules == 7

\* the directions of the stored embeddings: the first one opposite to the
\* embeddings searched for, the others at different angles to them
Directions ==
    <<<<-1, 0>>, <<1, 0>>, <<3, 4>>, <<4, 3>>, <<0, 1>>, <<5, 12>>, <<12, 5>>, <<3, -4>>>>

\* the embedding of the i-th rule stored
SearchedEmbedding(i) == Vector(EmbeddingDimension, Directions[((i - 1) % Len(Directions)) + 1])

InitSearch ==
    /\ InitRequests
    /\ embeddingClient = NULL
    /\ llmClient = NULL
    /\ repoCall = NULL
    /\ \E n \in 0..MaxRules :
          /\ user_instructions = Populated([i \in 1..n |-> SearchedEmbedding(i)]).user_instructions
          /\ rules = Populated([i \in 1..n |-> SearchedEmbedding(i)]).rules

GetRelevantRules_CallWithOrWithoutOptions(r) ==
    GetRelevantRules_CallWith(r, {<<"t">>}, {UNDEFINED, Some(1)}, {UNDEFINED, Some(61)})

NextSearch ==
    \E r \in Reqs :
        \/ GetRelevantRules_CallWithOrWithoutOptions(r)
        \/ GetRelevantRules_GenerateEmbeddingReturns(r)
        \/ GetRelevantRules_GenerateEmbeddingThrows(r)

SpecSearch == InitSearch /\ [][NextSearch]_vars

----------------------------------------------------------------------------
(* OpenAIEmbeddingClient.generateEmbedding: one call and its retry loop.   *)
(* The client is a record: its configuration, the loop's position (pc) and *)
(* locals (attempt, lastError), what it did so far (calls: invocations of  *)
(* embeddings.create; responses: how each ended; sleeps: the delays it     *)
(* slept) and the EmbeddingResult it returned.  Numbers are integers.      *)

EmbeddingMaxRetriesValues == -1..MaxEmbeddingRetries

EmbeddingRetryDelays == {100, 1000}

\* a thrown object that is not an Error but carries a message
ApiError(msg) == [isError |-> FALSE, message |-> msg]

\* what embeddings.create may reject with
EmbeddingThrown == {Err(<<"Server error">>), ApiError(<<"Rate limit reached">>), NonError}

\* the embedding arrays a response may carry
EmbeddingData == {<<1, 0>>, <<16777217, -3>>}

\* what embeddings.create may resolve to: data with an embedding, an empty
\* data list, a first element without embedding, or a body without data
CreateResponses ==
    {[data |-> Some(<<[embedding |-> Some(v)]>>)] : v \in EmbeddingData}
    \cup {[data |-> Some(<<>>)], [data |-> Some(<<[embedding |-> UNDEFINED]>>)],
          [data |-> UNDEFINED]}

\* how one invocation of embeddings.create ended
ThrewOutcome(thrown) == [threw |-> Some(thrown), response |-> NULL]

ReturnedOutcome(response) == [threw |-> NULL, response |-> Some(response)]

\* the client after construction from the configuration
EmbeddingClient(maxRetries, retryDelay) ==
    [maxRetries |-> maxRetries, retryDelay |-> retryDelay, pc |-> "idle", attempt |-> 0,
     lastError |-> UNDEFINED, calls |-> 0, responses |-> <<>>, sleeps |-> <<>>,
     result |-> NULL]

\* mutant: the configured value is used as it is
effectiveMaxRetries_Unclamped(maxRetries) == maxRetries

\* const effectiveMaxRetries = Math.max(0, this.maxRetries)
effectiveMaxRetries(maxRetries) == IF maxRetries > 0 THEN maxRetries ELSE 0

\* OpenAIEmbeddingClient.extractErrorMessage
extractErrorMessage(thrown) ==
    IF thrown.isError THEN thrown.message
    ELSE IF thrown.message # <<>> THEN thrown.message
    ELSE <<"Unknown error">>

\* one element of a Float32Array: the nearest float32, ties to even (a
\* float32 has 24 significant bits, so integers up to 2^24 are kept)
Float32(x) ==
    IF Abs(x) <= 2^24 THEN x
    ELSE LET e == CHOOSE k \in 24..29 : 2^k <= Abs(x) /\ Abs(x) < 2^(k + 1)
             ulp == 2^(e - 23)
             down == (Abs(x) \div ulp) * ulp
             rest == Abs(x) - down
             magnitude == IF 2 * rest < ulp THEN down
                          ELSE IF 2 * rest > ulp THEN down + ulp
                          ELSE IF (down \div ulp) % 2 = 0 THEN down
                          ELSE down + ulp
         IN  IF x < 0 THEN -magnitude ELSE magnitude

\* new Float32Array(embedding)
Float32Array(embedding) == [i \in 1..Len(embedding) |-> Float32(embedding[i])]

\* mutant: the delay grows linearly
backoff_Linear(retryDelay, attempt) == retryDelay * (attempt + 1)

\* this.retryDelay * Math.pow(2, attempt)
backoff(retryDelay, attempt) == retryDelay * 2^attempt

\* mutant: the last retry is given up
giveUp_Early(attempt, effective) == attempt + 1 >= effective

\* if (attempt === effectiveMaxRetries): the catch block returns the failure
giveUp(attempt, effective) == attempt = effective

\* return { success: false, error }
EmbeddingFailure(client, text) ==
    [client EXCEPT !.pc = "returned",
                   !.result = Some([success |-> FALSE, embedding |-> UNDEFINED,
                                    error |-> Some(text)])]

AttemptsText(client, message) ==
    <<"Failed to generate embedding after ",
      ToString(effectiveMaxRetries(client.maxRetries) + 1),
      " attempts. Last error: ">> \o message

\* the head of the for loop: invoke embeddings.create, or leave the loop
generateEmbeddingLoop(client) ==
    IF client.attempt <= effectiveMaxRetries(client.maxRetries)
    THEN [client EXCEPT !.pc = "create", !.calls = @ + 1]
    ELSE EmbeddingFailure(client,
                          AttemptsText(client,
                                       IF client.lastError = UNDEFINED
                                          \/ client.lastError = Some(<<>>)
                                       THEN <<"Unknown error">>
                                       ELSE Val(client.lastError)))

\* the catch block of the loop body
generateEmbeddingCatch(client, thrown) ==
    LET errorMessage == extractErrorMessage(thrown)
        effective == effectiveMaxRetries(client.maxRetries)
    IN  IF giveUp(client.attempt, effective)
        THEN EmbeddingFailure(client, AttemptsText(client, errorMessage))
        ELSE IF client.attempt < effective
        THEN [client EXCEPT !.lastError = Some(errorMessage),
                            !.pc = "sleep",
                            !.sleeps = Append(@, backoff(client.retryDelay, client.attempt))]
        ELSE generateEmbeddingLoop([client EXCEPT !.lastError = Some(errorMessage),
                                                  !.attempt = @ + 1])

\* mutant: a response without embedding is thrown into the catch block
invalidResponse_Retried(client) ==
    generateEmbeddingCatch(client,
                           Err(<<"Invalid embedding response format from OpenAI API">>))

\* if (!embedding) return { success: false, error: "Invalid embedding ..." }
invalidResponse(client) ==
    EmbeddingFailure(client, <<"Invalid embedding response format from OpenAI API">>)

\* the try block of the loop body, from the resolution of embeddings.create
generateEmbeddingTry(client, response) ==
    IF response.data = UNDEFINED
    THEN generateEmbeddingCatch(client,
                                Err(<<"Cannot read properties of undefined (reading '0')">>))
    ELSE LET data == Val(response.data)
             embedding == IF Len(data) = 0 THEN UNDEFINED ELSE data[1].embedding
         IN  IF Falsy(embedding) THEN invalidResponse(client)
             ELSE [client EXCEPT !.pc = "returned",
                                 !.result = Some([success |-> TRUE,
                                                  embedding |-> Some(Float32Array(Val(embedding))),
                                                  error |-> UNDEFINED])]

\* the client with the end of its pending invocation recorded
Responded(client, outcome) == [client EXCEPT !.responses = Append(@, outcome)]

\* generateEmbedding(text) is called
Embedding_Generate ==
    /\ embeddingClient.pc = "idle"
    /\ embeddingClient' = generateEmbeddingLoop(embeddingClient)
    /\ UNCHANGED <<handlers, llmClient, repoCall>>

\* embeddings.create resolves
Embedding_CreateReturns ==
    /\ embeddingClient.pc = "create"
    /\ \E response \in CreateResponses :
          embeddingClient' = generateEmbeddingTry(Responded(embeddingClient,
                                                            ReturnedOutcome(response)),
                                                  response)
    /\ UNCHANGED <<handlers, llmClient, repoCall>>

\* embeddings.create rejects
Embedding_CreateThrows ==
    /\ embeddingClient.pc = "create"
    /\ \E thrown \in EmbeddingThrown :
          embeddingClient' = generateEmbeddingCatch(Responded(embeddingClient,
                                                              ThrewOutcome(thrown)),
                                                    thrown)
    /\ UNCHANGED <<handlers, llmClient, repoCall>>

\* the sleep of the catch block ends: attempt++ and the loop's test
Embedding_SleepEnds ==
    /\ embeddingClient.pc = "sleep"
    /\ embeddingClient' = generateEmbeddingLoop([embeddingClient EXCEPT !.attempt = @ + 1])
    /\ UNCHANGED <<handlers, llmClient, repoCall>>

InitEmbedding ==
    /\ InitHandlers
    /\ llmClient = NULL
    /\ repoCall = NULL
    /\ embeddingClient \in {EmbeddingClient(maxRetries, retryDelay) :
                               maxRetries \in EmbeddingMaxRetriesValues,
                               retryDelay \in EmbeddingRetryDelays}

NextEmbedding ==
    \/ Embedding_Generate
    \/ Embedding_CreateReturns
    \/ Embedding_CreateThrows
    \/ Embedding_SleepEnds

SpecEmbedding == InitEmbedding /\ [][NextEmbedding]_vars

----------------------------------------------------------------------------
(* OpenAIClient.generateRule: one call and its retry loop, in the two      *)
(* versions of the client: "structured" asks chat.completions.parse for a  *)
(* value of responseSchema, "text" asks chat.completions.create for a text *)
(* and parses it itself (parseResponse).  The client is a record like the  *)
(* embedding client's; outcomes records how each invocation ended.         *)

LlmVersions == {"structured", "text"}

LlmMaxRetriesValues == -1..MaxLlmRetries

LlmRetryDelays == {100, 1000}

\* !s for a nullable string: null, undefined and "" are falsy
FalsyString(o) == Falsy(o) \/ Val(o) = ""

\* responseSchema: rule is null or has a non-empty rule_text and a category
\* of allowedCategories; reason is null or a string (possibly empty)
responseSchema(value) ==
    /\ value.rule # UNDEFINED
    /\ value.reason # UNDEFINED
    /\ value.rule # NULL =>
          /\ Val(value.rule).rule_text # ""
          /\ Val(value.rule).category \in allowedCategories

\* the values message.parsed may hold: those that satisfy responseSchema
ParsedValues ==
    {value \in [rule : {NULL} \cup {Some([rule_text |-> t, category |-> c]) :
                                       t \in {"Use TypeScript for new files", ""},
                                       c \in {"style", "testing", "misc"}},
                reason : {NULL, Some("Too specific: pixel tweak")}] :
        responseSchema(value)}

\* what chat.completions.parse may resolve to: no choice, a choice without
\* parsed value (with or without refusal), a choice with a parsed value
ChatParseResponses ==
    {[choices |-> <<>>]}
    \cup {[choices |-> <<[message |-> [parsed |-> NULL, refusal |-> refusal]]>>] :
             refusal \in {NULL, Some("I cannot help with that")}}
    \cup {[choices |-> <<[message |-> [parsed |-> Some(value), refusal |-> NULL]]>>] :
             value \in ParsedValues}

\* a message text: whether /\{[\s\S]*\}/ matches, whether JSON.parse accepts
\* the match, and the fields of the parsed object
NoJson == [match |-> FALSE, parses |-> FALSE, rule_text |-> UNDEFINED, category |-> UNDEFINED]

BadJson == [match |-> TRUE, parses |-> FALSE, rule_text |-> UNDEFINED, category |-> UNDEFINED]

Json(ruleText, category) ==
    [match |-> TRUE, parses |-> TRUE, rule_text |-> ruleText, category |-> category]

Contents ==
    {NoJson, BadJson}
    \cup {Json(t, c) : t \in {Some("Use TypeScript for new files"), UNDEFINED},
                       c \in {Some("testing"), Some("misc"), UNDEFINED}}

\* what chat.completions.create may resolve to: no choice, a choice without
\* content, a choice with a text
ChatCreateResponses ==
    {[choices |-> <<>>], [choices |-> <<[message |-> [content |-> NULL]]>>]}
    \cup {[choices |-> <<[message |-> [content |-> Some(content)]]>>] : content \in Contents}

ChatResponses(version) ==
    IF version = "structured" THEN ChatParseResponses ELSE ChatCreateResponses

\* the client after construction from the configuration
LlmClient(version, maxRetries, retryDelay) ==
    [version |-> version, maxRetries |-> maxRetries, retryDelay |-> retryDelay,
     pc |-> "idle", attempt |-> 1, calls |-> 0, outcomes |-> <<>>, sleeps |-> <<>>,
     result |-> NULL]

\* a RuleGenerationResult: the structured version sets all four fields, the
\* text version leaves out the fields it has no value for
RuleGenerationResult(version, success, generated, reason, failure) ==
    IF version = "structured"
    THEN [success |-> success, rule |-> generated, reason |-> reason, error |-> failure]
    ELSE [success |-> success,
          rule |-> IF generated = NULL THEN UNDEFINED ELSE generated,
          reason |-> UNDEFINED,
          error |-> IF failure = NULL THEN UNDEFINED ELSE failure]

\* return <result>
RuleReturned(client, success, generated, reason, failure) ==
    [client EXCEPT !.pc = "returned",
                   !.result = Some(RuleGenerationResult(client.version, success, generated,
                                                        reason, failure))]

\* mutant: the first delay is 0
llmBackoff_ZeroBased(retryDelay, attempt) == retryDelay * (attempt - 1)

\* this.config.retryDelay * attempt
llmBackoff(retryDelay, attempt) == retryDelay * attempt

\* mutant: the configured value is raised to one attempt at least
generateRuleLoop_AtLeastOnce(client) ==
    IF client.attempt <= (IF client.maxRetries > 1 THEN client.maxRetries ELSE 1)
    THEN [client EXCEPT !.pc = "call", !.calls = @ + 1]
    ELSE RuleReturned(client, FALSE, NULL, NULL,
                      Some(<<"Unexpected error in rule generation">>))

\* mutant: the loop has no test, while (true)
generateRuleLoop_NoLimit(client) == [client EXCEPT !.pc = "call", !.calls = @ + 1]

\* the head of the for loop: invoke the chat completion, or leave the loop
generateRuleLoop(client) ==
    IF client.attempt <= client.maxRetries
    THEN [client EXCEPT !.pc = "call", !.calls = @ + 1]
    ELSE RuleReturned(client, FALSE, NULL, NULL,
                      Some(<<"Unexpected error in rule generation">>))

\* the catch block of the loop body
generateRuleCatch(client, thrown) ==
    IF client.attempt = client.maxRetries
    THEN RuleReturned(client, FALSE, NULL, NULL,
                      Some(<<"Failed to generate rule after ", ToString(client.maxRetries),
                             " attempts: ">> \o ErrorMessage(thrown)))
    ELSE [client EXCEPT !.pc = "delay",
                        !.sleeps = Append(@, llmBackoff(client.retryDelay, client.attempt))]

\* mutant: a response without parsed value is thrown into the catch block
noParsedValue_Retried(client, refusal) ==
    generateRuleCatch(client, Err(<<"Failed to generate rule. Error: ", Str(refusal)>>))

\* if (!parsed) return { success: false, ..., error: `Failed to generate rule. Error: ...` }
noParsedValue(client, refusal) ==
    RuleReturned(client, FALSE, NULL, NULL,
                 Some(<<"Failed to generate rule. Error: ", Str(refusal)>>))

\* mutant: the two fields of the rule are taken from each other
generatedRule_Swapped(ruleText, category) == [rule_text |-> category, category |-> ruleText]

\* rule: { rule_text: ..., category: ... }
generatedRule(ruleText, category) == [rule_text |-> ruleText, category |-> category]

\* OpenAIClient.parseResponse (text version)
parseResponse(client, content) ==
    IF ~content.match
    THEN RuleReturned(client, FALSE, NULL, NULL,
                      Some(<<"Failed to parse LLM response: ", "No JSON found in response">>))
    ELSE IF ~content.parses
    THEN RuleReturned(client, FALSE, NULL, NULL,
                      Some(<<"Failed to parse LLM response: ", "Unexpected token">>))
    ELSE IF FalsyString(content.rule_text) \/ FalsyString(content.category)
    THEN RuleReturned(client, FALSE, NULL, NULL,
                      Some(<<"Failed to parse LLM response: ",
                             "Invalid response format: missing rule_text or category">>))
    ELSE RuleReturned(client, TRUE,
                      Some(generatedRule(Val(content.rule_text), Val(content.category))),
                      NULL, NULL)

\* the try block of the loop body, from the resolution of the chat completion
generateRuleTry(client, response) ==
    IF client.version = "structured"
    THEN IF response.choices = <<>>
         THEN generateRuleCatch(client,
                                Err(<<"Cannot read properties of undefined (reading 'message')">>))
         ELSE LET message == response.choices[1].message
              IN  IF Falsy(message.parsed) THEN noParsedValue(client, message.refusal)
                  ELSE IF ~Falsy(Val(message.parsed).rule)
                  THEN RuleReturned(client, TRUE,
                                    Some(generatedRule(Val(Val(message.parsed).rule).rule_text,
                                                       Val(Val(message.parsed).rule).category)),
                                    NULL, NULL)
                  ELSE RuleReturned(client, TRUE, NULL, Val(message.parsed).reason, NULL)
    ELSE LET content == IF response.choices = <<>> THEN UNDEFINED
                        ELSE response.choices[1].message.content
         IN  IF Falsy(content)
             THEN generateRuleCatch(client, Err(<<"No content received from OpenAI">>))
             ELSE parseResponse(client, Val(content))

\* the client with the end of its pending invocation recorded
LlmResponded(client, outcome) == [client EXCEPT !.outcomes = Append(@, outcome)]

\* generateRule(instruction, context) is called
Llm_GenerateRule ==
    /\ llmClient.pc = "idle"
    /\ llmClient' = generateRuleLoop(llmClient)
    /\ UNCHANGED <<handlers, embeddingClient, repoCall>>

\* the chat completion resolves
Llm_CompletionReturns ==
    /\ llmClient.pc = "call"
    /\ \E response \in ChatResponses(llmClient.version) :
          llmClient' = generateRuleTry(LlmResponded(llmClient, ReturnedOutcome(response)),
                                       response)
    /\ UNCHANGED <<handlers, embeddingClient, repoCall>>

\* the chat completion rejects
Llm_CompletionThrows ==
    /\ llmClient.pc = "call"
    /\ \E thrown \in Thrown :
          llmClient' = generateRuleCatch(LlmResponded(llmClient, ThrewOutcome(thrown)), thrown)
    /\ UNCHANGED <<handlers, embeddingClient, repoCall>>

\* the delay of the catch block ends: attempt++ and the loop's test
Llm_DelayEnds ==
    /\ llmClient.pc = "delay"
    /\ llmClient' = generateRuleLoop([llmClient EXCEPT !.attempt = @ + 1])
    /\ UNCHANGED <<handlers, embeddingClient, repoCall>>

InitClassifier ==
    /\ InitHandlers
    /\ embeddingClient = NULL
    /\ repoCall = NULL
    /\ llmClient \in {LlmClient(version, maxRetries, retryDelay) :
                         version \in LlmVersions, maxRetries \in LlmMaxRetriesValues,
                         retryDelay \in LlmRetryDelays}

NextClassifier ==
    \/ Llm_GenerateRule
    \/ Llm_CompletionReturns
    \/ Llm_CompletionThrows
    \/ Llm_DelayEnds

SpecClassifier == InitClassifier /\ [][NextClassifier]_vars

----------------------------------------------------------------------------
(* Progress.  The handlers, one call of generateEmbedding and one call of  *)
(* generateRule, each run on its own, under the assumption that what is    *)
(* awaited settles: an outbound call or a store call returns or throws, a  *)
(* timer fires, and the event loop then runs the continuation.             *)

InitProgress == Init \/ InitEmbedding \/ InitClassifier

\* the continuations of request r: the code after each of its awaits
Resumes(r) ==
    \/ Remember_GenerateRuleReturns(r)
    \/ Remember_GenerateRuleThrows(r)
    \/ Remember_CreateRuleCall(r)
    \/ Remember_GenerateEmbeddingReturns(r)
    \/ Remember_GenerateEmbeddingThrows(r)
    \/ Remember_Link(r)
    \/ GetRelevantRules_GenerateEmbeddingReturns(r)
    \/ GetRelevantRules_GenerateEmbeddingThrows(r)

\* the continuations of generateEmbedding
EmbeddingResumes ==
    /\ embeddingClient # NULL
    /\ (Embedding_CreateReturns \/ Embedding_CreateThrows \/ Embedding_SleepEnds)

\* the continuations of generateRule
LlmResumes ==
    /\ llmClient # NULL
    /\ (Llm_CompletionReturns \/ Llm_CompletionThrows \/ Llm_DelayEnds)

NextProgress ==
    \/ embeddingClient = NULL /\ llmClient = NULL /\ Next
    \/ embeddingClient # NULL /\ NextEmbedding
    \/ llmClient # NULL /\ NextClassifier

\* some continuation that is due
Settles ==
    \/ embeddingClient = NULL /\ llmClient = NULL /\ \E r \in Reqs : Resumes(r)
    \/ EmbeddingResumes
    \/ LlmResumes

\* while a continuation is due, one of those due is run
SpecProgress == InitProgress /\ [][NextProgress]_vars /\ WF_vars(Settles)

----------------------------------------------------------------------------
(* Properties *)

Remembering(r) == tool[r] = "rememberDeveloperInstruction"

Text(r) == Val(result[r])

\* the classifier judged the instruction not generalizable
NotGeneralizable(answer) == answer.success /\ answer.rule = NULL

\* request r ended with the success response
Succeeded(r) ==
    /\ pc[r] = "resolved"
    /\ Remembering(r)
    /\ Contains(Text(r), "Instruction processed successfully")

\* request r has put a row into user_instructions
InsertedInstruction(r) ==
    \/ createdInstruction[r] # NULL
    \/ error[r] = Some(StoreFault("SELECT FROM user_instructions"))

\* request r has put a row into rules
InsertedRule(r) ==
    \/ rule[r] # NULL
    \/ /\ Remembering(r)
       /\ error[r] = Some(StoreFault("SELECT FROM rules"))

\* C1: in every reachable state every row of the rules table has a stored
\* embedding; no rule row without an embedding is ever observable.
C1_EveryRuleHasEmbedding ==
    \A i \in 1..Len(rules) : rules[i].embedding # NULL /\ rules[i].embedding # UNDEFINED

C1_Witness ==
    /\ Len(rules) >= 1
    /\ \E r \in Reqs :
          /\ Remembering(r)
          /\ embeddingResult[r] # NULL
          /\ EmbeddingFailed(Val(embeddingResult[r]))

\* C2: whenever the embedding generator returns a failure, createRule rejects
\* with 'Failed to generate embedding: <embedding error>' and the rules table
\* is left as it was.
C2_EmbeddingFailureRejectsCreateRule ==
    [][\A r \in Reqs :
          (/\ pc[r] = "generateEmbedding"
           /\ embeddingResult'[r] # NULL
           /\ EmbeddingFailed(Val(embeddingResult'[r])))
          => /\ rules' = rules
             /\ Len(rules') = Len(rules)
             /\ error'[r] = Some(Err(<<"Failed to generate embedding: ",
                                      Str(Val(embeddingResult'[r]).error)>>))]_vars

C2_Witness ==
    \E r \in Reqs :
        /\ Remembering(r)
        /\ pc[r] = "resolved"
        /\ embeddingResult[r] # NULL
        /\ EmbeddingFailed(Val(embeddingResult[r]))
        /\ Len(rules) >= 1

\* C3: when rememberDeveloperInstruction ends in success, the request has
\* added exactly one instruction row and one rule row, the two rows refer to
\* each other, the rule has instructions_count 1 and the classifier's text and
\* category, and the response reports the ids of these two rows.
C3_SuccessStoresLinkedPair ==
    /\ Len(user_instructions) = Cardinality({r \in Reqs : InsertedInstruction(r)})
    /\ Len(rules) = Cardinality({r \in Reqs : InsertedRule(r)})
    /\ \A r \in Reqs :
          Succeeded(r) =>
             LET generated == Val(Val(ruleGenerationResult[r]).rule)
                 instructionId == Val(createdInstruction[r]).id
                 ruleId == Val(rule[r]).id
                 instructionRows == {i \in 1..Len(user_instructions) :
                                        user_instructions[i].id = instructionId}
                 ruleRows == {j \in 1..Len(rules) : rules[j].id = ruleId}
             IN  /\ Cardinality(instructionRows) = 1
                 /\ Cardinality(ruleRows) = 1
                 /\ \A i \in instructionRows :
                       /\ user_instructions[i].rule_id = Some(ruleId)
                       /\ user_instructions[i].instruction = args[r].instruction
                       /\ user_instructions[i].context = args[r].context
                 /\ \A j \in ruleRows :
                       /\ rules[j].created_from_instruction_id = instructionId
                       /\ rules[j].instructions_count = 1
                       /\ rules[j].rule_text = generated.rule_text
                       /\ rules[j].category = generated.category
                 /\ \A q \in Reqs :
                       (q # r /\ createdInstruction[q] # NULL)
                       => Val(createdInstruction[q]).id # instructionId
                 /\ \A q \in Reqs : (q # r /\ rule[q] # NULL) => Val(rule[q]).id # ruleId
                 /\ Text(r)[3] = generated.rule_text
                 /\ Text(r)[5] = generated.category
                 /\ Text(r)[6] = "). Rule ID: "
                 /\ Text(r)[7] = ToString(ruleId)
                 /\ Text(r)[8] = ", Instruction ID: "
                 /\ Text(r)[9] = ToString(instructionId)

C3_Witness ==
    \E r \in Reqs :
        /\ Succeeded(r)
        /\ Val(rule[r]).id # Val(createdInstruction[r]).id

\* C4: when the classifier returns a non-generalizable verdict, the request
\* writes nothing: both tables stay as they are, the request ends there and
\* it never calls the embedding generator.
C4_NotGeneralizableWritesNothing ==
    [][\A r \in Reqs :
          /\ (/\ pc[r] = "generateRule"
              /\ ruleGenerationResult'[r] # NULL
              /\ NotGeneralizable(Val(ruleGenerationResult'[r])))
             => /\ user_instructions' = user_instructions
                /\ rules' = rules
                /\ pc'[r] = "resolved"
                /\ createdInstruction'[r] = NULL
                /\ embeddingCalls'[r] = 0
          /\ (/\ pc[r] = "resolved"
              /\ ruleGenerationResult[r] # NULL
              /\ NotGeneralizable(Val(ruleGenerationResult[r])))
             => /\ pc'[r] = "resolved"
                /\ embeddingCalls'[r] = 0]_vars

C4_Witness ==
    \E r \in Reqs :
        /\ pc[r] = "resolved"
        /\ ruleGenerationResult[r] # NULL
        /\ NotGeneralizable(Val(ruleGenerationResult[r]))
        /\ embeddingCalls[r] = 0
        /\ Len(user_instructions) >= 1

\* C5: when the classifier returns a non-generalizable verdict with reason R,
\* the response contains 'No rule generated.' and the reason R, and differs
\* from the response to a failed classifier call.
C5_NotGeneralizableResponse ==
    \A r \in Reqs :
        (/\ pc[r] = "resolved"
         /\ ruleGenerationResult[r] # NULL
         /\ NotGeneralizable(Val(ruleGenerationResult[r])))
        => /\ Contains(Text(r), "No rule generated.")
           /\ Contains(Text(r), Val(Val(ruleGenerationResult[r]).reason))
           /\ ~Contains(Text(r), "Failed to generate abstract rule")

\* C6: when the classifier fails (success = false), the request ends with a
\* response containing 'Failed to generate abstract rule' and the classifier's
\* error text, and nothing is persisted: no instruction row, no rule row, no
\* embedding call.
C6_ClassifierFailurePersistsNothing ==
    [][\A r \in Reqs :
          (/\ pc[r] = "generateRule"
           /\ ruleGenerationResult'[r] # NULL
           /\ ~Val(ruleGenerationResult'[r]).success)
          => /\ pc'[r] = "resolved"
             /\ Contains(Val(result'[r]), "Failed to generate abstract rule")
             /\ Contains(Val(result'[r]), Str(Val(ruleGenerationResult'[r]).error))
             /\ user_instructions' = user_instructions
             /\ rules' = rules
             /\ createdInstruction'[r] = NULL
             /\ rule'[r] = NULL
             /\ embeddingCalls'[r] = 0]_vars

C6_Witness ==
    \E r \in Reqs :
        /\ pc[r] = "resolved"
        /\ ruleGenerationResult[r] # NULL
        /\ ~Val(ruleGenerationResult[r]).success
        /\ Contains(Text(r), "LLM service unavailable")

\* C7: when createInstruction fails with a store fault, the request ends with
\* a 'Failed to create instruction' response, no rule row is created and the
\* embedding generator is never called.
C7_CreateInstructionFailure ==
    [][\A r \in Reqs :
          (/\ pc[r] = "generateRule"
           /\ error'[r] \in {Some(StoreFault("INSERT INTO user_instructions")),
                             Some(StoreFault("SELECT FROM user_instructions"))})
          => /\ pc'[r] = "resolved"
             /\ Contains(Val(result'[r]), "Failed to create instruction")
             /\ rules' = rules
             /\ rule'[r] = NULL
             /\ embeddingCalls'[r] = 0]_vars

C7_Witness ==
    \E r \in Reqs :
        /\ pc[r] = "resolved"
        /\ Remembering(r)
        /\ error[r] = Some(StoreFault("INSERT INTO user_instructions"))
        /\ embeddingCalls[r] = 0

\* C8: when rule creation fails because the embedding generation fails or the
\* rule insert fails, the request ends with a 'Failed to create rule with
\* embedding' response, its instruction row stays in user_instructions with
\* rule_id unset, and no rule row has been added for it.
C8_RuleCreationFailureLeavesInstruction ==
    \A r \in Reqs :
        (/\ pc[r] = "resolved"
         /\ createdInstruction[r] # NULL
         /\ rule[r] = NULL
         /\ error[r] # Some(StoreFault("SELECT FROM rules")))
        => LET instructionId == Val(createdInstruction[r]).id
           IN  /\ Contains(Text(r), "Failed to create rule with embedding")
               /\ findInstructionById(user_instructions, instructionId) # NULL
               /\ Val(findInstructionById(user_instructions, instructionId)).rule_id = NULL
               /\ \A j \in 1..Len(rules) :
                     rules[j].created_from_instruction_id # instructionId

C8_Witness ==
    \E r, q \in Reqs :
        /\ pc[r] = "resolved"
        /\ createdInstruction[r] # NULL
        /\ embeddingResult[r] # NULL
        /\ EmbeddingFailed(Val(embeddingResult[r]))
        /\ pc[q] = "resolved"
        /\ createdInstruction[q] # NULL
        /\ error[q] = Some(StoreFault("INSERT INTO rules"))

\* every rule_id that is set names a row of the rules table
RuleIdsReferToRules(instructionsTable, rulesTable) ==
    \A i \in 1..Len(instructionsTable) :
        instructionsTable[i].rule_id # NULL
        => findRuleById(rulesTable, Val(instructionsTable[i].rule_id)) # NULL

\* C9: an instruction's rule_id, once set, refers to an existing rule row, and
\* it is set at most once: from unset to a value, never changed afterwards.
C9_RuleIdSetOnceToExistingRule ==
    [][/\ RuleIdsReferToRules(user_instructions, rules)
       /\ RuleIdsReferToRules(user_instructions', rules')
       /\ \A i \in 1..Len(user_instructions) :
             /\ i <= Len(user_instructions')
             /\ user_instructions'[i].id = user_instructions[i].id
             /\ user_instructions[i].rule_id # NULL
                => user_instructions'[i].rule_id = user_instructions[i].rule_id]_vars

C9_Witness ==
    \E i, k \in 1..Len(user_instructions) :
        /\ i < k
        /\ user_instructions[i].rule_id # NULL
        /\ user_instructions[k].rule_id # NULL
        /\ user_instructions[i].rule_id # user_instructions[k].rule_id

\* C10: whatever the classifier, the embedding generator and the store do
\* (return a failure or throw), both handlers resolve with a text result;
\* neither ever rejects.
C10_HandlersAlwaysResolve ==
    \A r \in Reqs :
        /\ pc[r] # "rejected"
        /\ pc[r] = "resolved" => (result[r] # NULL /\ Len(Text(r)) >= 1)
        /\ error[r] # NULL => pc[r] = "resolved"

C10_Witness ==
    \E r, q \in Reqs :
        /\ Remembering(r)
        /\ pc[r] = "resolved"
        /\ Contains(Text(r), "Unexpected error")
        /\ tool[q] = "getRelevantRules"
        /\ pc[q] = "resolved"
        /\ error[q] = Some(StoreFault("SELECT FROM rules"))

\* the step names a failure response of rememberDeveloperInstruction may carry
StepMessages ==
    {"Failed to generate abstract rule", "Failed to create instruction",
     "Failed to create rule with embedding", "Unexpected error"}

\* text carries the step name message and none of the other step names
NamesOnly(text, message) ==
    \A m \in StepMessages : Contains(text, m) <=> m = message

\* request r ends in this step, having been suspended at position
EndsFrom(r, position) ==
    /\ Remembering(r)
    /\ pc[r] = position
    /\ pc'[r] = "resolved"

RetriesAllowed == IF embeddingClient.maxRetries < 0 THEN 0 ELSE embeddingClient.maxRetries

\* the first n invocations of embeddings.create threw
FirstThrew(n) ==
    /\ n <= Len(embeddingClient.responses)
    /\ \A i \in 1..n : embeddingClient.responses[i].threw # NULL

\* the response of invocation i has no embedding: an empty data list, or a
\* first element without one
LacksVectorData(i) ==
    LET response == embeddingClient.responses[i].response
    IN  /\ response # NULL
        /\ Val(response).data # UNDEFINED
        /\ \/ Val(Val(response).data) = <<>>
           \/ Falsy(Val(Val(response).data)[1].embedding)

\* C12: with N = max(0, embeddingMaxRetries), when every invocation of
\* embeddings.create throws, generateEmbedding makes exactly N+1 invocations
\* and then returns success = false with the error 'Failed to generate
\* embedding after <N+1> attempts. Last error: <message of the last thrown
\* value>'; a negative maxRetries gives one invocation and '1 attempts'.
C12_AllThrowGivesUpAfterNPlus1 ==
    LET made == Len(embeddingClient.responses)
    IN  /\ embeddingClient.calls <= RetriesAllowed + 1
        /\ embeddingClient.pc # "idle" => embeddingClient.calls >= 1
        /\ FirstThrew(made) =>
              /\ embeddingClient.pc = "returned" <=> made = RetriesAllowed + 1
              /\ embeddingClient.pc = "returned" =>
                    /\ embeddingClient.calls = RetriesAllowed + 1
                    /\ embeddingClient.result =
                          Some([success |-> FALSE, embedding |-> UNDEFINED,
                                error |-> Some(<<"Failed to generate embedding after ",
                                                 ToString(RetriesAllowed + 1),
                                                 " attempts. Last error: ">>
                                               \o extractErrorMessage(
                                                     Val(embeddingClient.responses[made].threw)))])
                    /\ (embeddingClient.maxRetries < 0
                        => /\ embeddingClient.calls = 1
                           /\ Val(embeddingClient.result).error[1][2] = "1")

C12_Witness ==
    /\ embeddingClient.pc = "returned"
    /\ embeddingClient.maxRetries = 2
    /\ embeddingClient.calls = 3
    /\ FirstThrew(3)
    /\ embeddingClient.responses[2].threw = Some(Err(<<"Server error">>))
    /\ embeddingClient.responses[3].threw = Some(ApiError(<<"Rate limit reached">>))
    /\ Contains(Val(Val(embeddingClient.result).error), "Rate limit reached")

\* C13: when the first f invocations throw, f <= max(0, embeddingMaxRetries),
\* the client has not given up and makes invocation f+1; when that one returns
\* vector data, generateEmbedding returns success with that data as a
\* Float32Array, having made exactly f+1 invocations.
C13_SucceedsAfterFFailures ==
    LET made == Len(embeddingClient.responses)
    IN  /\ (FirstThrew(made) /\ made <= RetriesAllowed) =>
              /\ embeddingClient.result = NULL
              /\ embeddingClient.pc = "create" => embeddingClient.calls = made + 1
              /\ embeddingClient.pc = "sleep" => embeddingClient.calls = made
        /\ (/\ made >= 1
            /\ FirstThrew(made - 1)
            /\ embeddingClient.responses[made].response # NULL
            /\ Val(embeddingClient.responses[made].response).data # UNDEFINED
            /\ ~LacksVectorData(made)) =>
              /\ embeddingClient.pc = "returned"
              /\ embeddingClient.calls = made
              /\ embeddingClient.result =
                    Some([success |-> TRUE,
                          embedding |->
                             Some(Float32Array(Val(Val(Val(embeddingClient.responses[made].response).data)[1].embedding))),
                          error |-> UNDEFINED])

C13_Witness ==
    /\ embeddingClient.pc = "returned"
    /\ embeddingClient.maxRetries = 2
    /\ embeddingClient.calls = 3
    /\ FirstThrew(2)
    /\ Val(embeddingClient.result).success
    /\ Val(embeddingClient.result).embedding = Some(<<16777216, -3>>)

\* C14: a response without vector data (an empty data list, or a first
\* element without embedding) ends generateEmbedding at once, at whichever
\* attempt and for every maxRetries: it returns success = false with 'Invalid
\* embedding response format from OpenAI API', and neither another invocation
\* nor a sleep follows that response.
C14_InvalidResponseIsFinal ==
    \A i \in 1..Len(embeddingClient.responses) :
        LacksVectorData(i) =>
           /\ i = Len(embeddingClient.responses)
           /\ embeddingClient.pc = "returned"
           /\ embeddingClient.calls = i
           /\ Len(embeddingClient.sleeps) = i - 1
           /\ embeddingClient.result =
                 Some([success |-> FALSE, embedding |-> UNDEFINED,
                       error |-> Some(<<"Invalid embedding response format from OpenAI API">>)])

C14_Witness ==
    /\ Len(embeddingClient.responses) = 2
    /\ LacksVectorData(2)
    /\ embeddingClient.maxRetries = 3
    /\ embeddingClient.pc = "returned"

\* C15: the k-th sleep of generateEmbedding (after failed attempt k - 1,
\* attempts counted from 0) lasts retryDelay * 2^(k - 1); every failed attempt
\* but the last allowed one is followed by a sleep, and no sleep follows the
\* final attempt.
C15_ExponentialBackoff ==
    LET made == Len(embeddingClient.responses)
        slept == Len(embeddingClient.sleeps)
    IN  /\ \A k \in 1..slept :
              embeddingClient.sleeps[k] = embeddingClient.retryDelay * 2^(k - 1)
        /\ slept <= RetriesAllowed
        /\ embeddingClient.pc \in {"create", "sleep"} => slept = embeddingClient.calls - 1
                                                          \/ slept = embeddingClient.calls
        /\ embeddingClient.pc = "sleep" => slept = made
        /\ embeddingClient.pc = "create" => slept = made
        /\ embeddingClient.pc = "returned" => slept = made - 1

C15_Witness ==
    /\ embeddingClient.pc = "returned"
    /\ embeddingClient.maxRetries = 2
    /\ embeddingClient.retryDelay = 100
    /\ FirstThrew(3)
    /\ embeddingClient.sleeps = <<100, 200>>

\* invocation i of the chat completion threw
LlmThrew(i) == llmClient.outcomes[i].threw # NULL

\* invocation i resolved to a response the try block cannot read: one
\* without choice, or (text version) without content
Unreadable(i) ==
    LET outcome == llmClient.outcomes[i]
    IN  /\ outcome.response # NULL
        /\ \/ Val(outcome.response).choices = <<>>
           \/ /\ llmClient.version = "text"
              /\ Falsy(Val(outcome.response).choices[1].message.content)

\* invocation i resolved to a response that cannot be parsed into a verdict:
\* no parsed value (structured version); no JSON, broken JSON, or a JSON
\* object without rule_text or category (text version)
Unparseable(i) ==
    LET outcome == llmClient.outcomes[i]
    IN  /\ outcome.response # NULL
        /\ Val(outcome.response).choices # <<>>
        /\ LET message == Val(outcome.response).choices[1].message
           IN  IF llmClient.version = "structured" THEN Falsy(message.parsed)
               ELSE /\ ~Falsy(message.content)
                    /\ \/ ~Val(message.content).match
                       \/ ~Val(message.content).parses
                       \/ FalsyString(Val(message.content).rule_text)
                       \/ FalsyString(Val(message.content).category)

\* invocation i was followed by a delay or by another invocation
Retried(i) == i < Len(llmClient.outcomes) \/ llmClient.pc # "returned"

\* the message of the error the catch block got from invocation i
CaughtMessage(i) ==
    IF LlmThrew(i) THEN ErrorMessage(Val(llmClient.outcomes[i].threw))
    ELSE IF llmClient.version = "structured"
    THEN <<"Cannot read properties of undefined (reading 'message')">>
    ELSE <<"No content received from OpenAI">>

\* C16: a response that cannot be parsed into a verdict (no parsed value in
\* the structured version; no JSON, broken JSON or a missing rule_text or
\* category in the text version) ends generateRule at once with success =
\* false, whatever llmMaxRetries is: the invocation that produced it is the
\* last one, and no delay follows it.
C16_UnparseableResponseIsFinal ==
    \A i \in 1..Len(llmClient.outcomes) :
        Unparseable(i) =>
           /\ i = Len(llmClient.outcomes)
           /\ llmClient.pc = "returned"
           /\ llmClient.calls = i
           /\ Len(llmClient.sleeps) = i - 1
           /\ ~Val(llmClient.result).success
           /\ Falsy(Val(llmClient.result).rule)
           /\ ~Falsy(Val(llmClient.result).error)
           /\ Val(Val(llmClient.result).error)[1] =
                 (IF llmClient.version = "structured" THEN "Failed to generate rule. Error: "
                  ELSE "Failed to parse LLM response: ")

C16_Witness ==
    /\ llmClient.version = "structured"
    /\ llmClient.maxRetries = 3
    /\ Len(llmClient.outcomes) = 1
    /\ Unparseable(1)
    /\ llmClient.calls = 1
    /\ llmClient.pc = "returned"

\* what generateRule does when every attempt ends in its catch block: C17's
\* count of invocations, delays and final error
ExhaustsRetries ==
    LET made == Len(llmClient.outcomes)
    IN  /\ llmClient.calls <= (IF llmClient.maxRetries < 0 THEN 0 ELSE llmClient.maxRetries)
        /\ \A k \in 1..Len(llmClient.sleeps) : llmClient.sleeps[k] = llmClient.retryDelay * k
        /\ (llmClient.maxRetries >= 1 /\ \A i \in 1..made : LlmThrew(i) \/ Unreadable(i)) =>
              /\ llmClient.pc = "returned" <=> made = llmClient.maxRetries
              /\ llmClient.pc = "returned" =>
                    /\ llmClient.calls = llmClient.maxRetries
                    /\ Len(llmClient.sleeps) = llmClient.maxRetries - 1
                    /\ llmClient.result =
                          Some(RuleGenerationResult(
                                  llmClient.version, FALSE, NULL, NULL,
                                  Some(<<"Failed to generate rule after ",
                                         ToString(llmClient.maxRetries), " attempts: ">>
                                       \o CaughtMessage(made))))

C18_ExactlyOneOfRuleAndReason ==
    llmClient.result # NULL =>
       LET returned == Val(llmClient.result)
       IN  /\ returned.success =>
                 /\ Falsy(returned.rule) # Falsy(returned.reason)
                 /\ ~Falsy(returned.rule) =>
                       /\ Val(returned.rule).rule_text # ""
                       /\ Val(returned.rule).category # ""
                 /\ Falsy(returned.rule) => ~Falsy(returned.reason)
           /\ ~returned.success =>
                 /\ Falsy(returned.rule)
                 /\ ~Falsy(returned.error)

\* the rule of the result generateRule returned, if it returned one
Yielded == Val(Val(llmClient.result).rule)

YieldsRule ==
    /\ llmClient.result # NULL
    /\ Val(llmClient.result).success
    /\ ~Falsy(Val(llmClient.result).rule)

InvalidParameters(r) ==
    \/ Trim(args[r].taskDescription) = <<>>
    \/ args[r].maxResults < 1
    \/ args[r].maxResults > 100
    \/ args[r].similarityThreshold < -100
    \/ args[r].similarityThreshold > 100

ValidationErrors ==
    {<<"Error: taskDescription cannot be empty">>,
     <<"Error: maxResults must be between 1 and 100">>,
     <<"Error: similarityThreshold must be between -1 and 1">>}

\* C20: getRelevantRules answers with a validation error, having called
\* neither the embedding generator nor the store, exactly when taskDescription
\* is empty after trimming, maxResults is outside [1, 100] or
\* similarityThreshold is outside [-1, 1]; with all three inside, the bounds
\* 1, 100, -1 and 1 included, it goes on to call the embedding generator.
C20_ValidationErrorIffOutOfRange ==
    \A r \in Reqs :
        tool[r] = "getRelevantRules" =>
           /\ InvalidParameters(r) =>
                 /\ pc[r] = "resolved"
                 /\ Text(r) \in ValidationErrors
                 /\ embeddingCalls[r] = 0
                 /\ storeQueries[r] = 0
                 /\ embeddingResult[r] = NULL
           /\ ~InvalidParameters(r) =>
                 /\ embeddingCalls[r] = 1
                 /\ pc[r] \in {"queryEmbedding", "resolved"}
                 /\ pc[r] = "resolved" => Text(r) \notin ValidationErrors

C20_Witness ==
    \E r, q \in Reqs :
        /\ tool[r] = "getRelevantRules"
        /\ args[r].maxResults = 100
        /\ args[r].similarityThreshold = -100
        /\ embeddingCalls[r] = 1
        /\ storeQueries[r] = 1
        /\ pc[r] = "resolved"
        /\ tool[q] = "getRelevantRules"
        /\ args[q].maxResults = 1
        /\ args[q].similarityThreshold = 101
        /\ embeddingCalls[q] = 0
        /\ Text(q) \in ValidationErrors

\* generateEmbedding resolved for request r without a usable embedding
NoQueryEmbedding(r) ==
    \/ ~Val(embeddingResult[r]).success
    \/ Val(embeddingResult[r]).embedding \in {NULL, UNDEFINED}

\* C21: in getRelevantRules a failed embedding generation ends the request
\* with 'Failed to generate embedding for task description' and never with
\* 'No relevant rules found'; the generator is not called again and the
\* similarity search is not run.  A search that finds nothing ends the request
\* with 'No relevant rules found', which is not an error: nothing was caught
\* and the text is no error text.
C21_EmbeddingFailureIsNotNoRules ==
    \A r \in Reqs :
        (tool[r] = "getRelevantRules" /\ embeddingResult[r] # NULL) =>
           /\ pc[r] = "resolved"
           /\ embeddingCalls[r] = 1
           /\ NoQueryEmbedding(r) =>
                 /\ Head(Text(r)) = "Failed to generate embedding for task description"
                 /\ ~Contains(Text(r), "No relevant rules found")
                 /\ storeQueries[r] = 0
           /\ Contains(Text(r), "No relevant rules found") =>
                 /\ ~NoQueryEmbedding(r)
                 /\ storeQueries[r] = 1
                 /\ error[r] = NULL
                 /\ ~Contains(Text(r), "Failed to generate embedding for task description")
                 /\ ~Contains(Text(r), "Unexpected error")
           /\ (~NoQueryEmbedding(r) /\ error[r] = NULL /\ rules = <<>>) =>
                 Head(Text(r)) = "No relevant rules found"

C21_Witness ==
    \E r, q \in Reqs :
        /\ tool[r] = "getRelevantRules"
        /\ embeddingResult[r] # NULL
        /\ NoQueryEmbedding(r)
        /\ Head(Text(r)) = "Failed to generate embedding for task description"
        /\ tool[q] = "getRelevantRules"
        /\ storeQueries[q] = 1
        /\ Head(Text(q)) = "No relevant rules found"

\* the latest repository call was of method op
Called(op) == repoCall # NULL /\ Val(repoCall).op = op

\* findSimilarRules was called and the store did not fail on its statement
Searched ==
    /\ Called("findSimilarRules")
    /\ Val(repoCall).threw # Some(StoreFault("SELECT FROM rules"))

\* the rules table the latest repository call ran against
RulesBefore == Val(repoCall).before.rules

\* the score of row i of that table against the embedding searched for
ScoreOf(i) == relevance_score(Val(RulesBefore[i].embedding), Val(repoCall).params.embedding)

\* the rows of that table whose score is a number >= threshold
MeetingThreshold(threshold) ==
    {i \in 1..Len(RulesBefore) : ScoreOf(i) # NULL /\ Val(ScoreOf(i)) >= threshold}

\* the search returned value: rows of the table, none twice, each with its
\* score, and each score >= the threshold
ReturnsQualifyingRules(value) ==
    /\ \A j \in 1..Len(value) :
          \E i \in MeetingThreshold(Val(repoCall).params.threshold) :
              /\ value[j].id = RulesBefore[i].id
              /\ value[j].relevance_score = Val(ScoreOf(i))
              /\ value[j].relevance_score >= Val(repoCall).params.threshold
    /\ \A j, k \in 1..Len(value) : j # k => value[j].id # value[k].id

\* some stored embedding differs in length from the embedding searched for
LengthsDiffer ==
    \E i \in 1..Len(RulesBefore) :
        Val(RulesBefore[i].embedding).length # Val(repoCall).params.embedding.length

C23_OrderedTopK ==
    (Searched /\ Val(repoCall).threw = NULL) =>
       LET value == Val(repoCall).value
       IN  /\ \A j, k \in 1..Len(value) :
                 j < k => value[j].relevance_score >= value[k].relevance_score
           /\ \A i \in MeetingThreshold(Val(repoCall).params.threshold) :
                 (\A j \in 1..Len(value) : value[j].id # RulesBefore[i].id)
                 => \A j \in 1..Len(value) : Val(ScoreOf(i)) <= value[j].relevance_score

C23_Witness ==
    /\ Searched
    /\ Val(repoCall).threw = NULL
    /\ Val(repoCall).params.limit = 1
    /\ Len(RulesBefore) = 2
    /\ MeetingThreshold(Val(repoCall).params.threshold) = {1, 2}
    /\ Val(ScoreOf(1)) = 60
    /\ Val(ScoreOf(2)) = 100
    /\ Len(Val(repoCall).value) = 1
    /\ Val(repoCall).value[1].id = 2

\* the numbers of rules the search may return for the latest call's table,
\* query and limit with the given threshold
CountsAt(threshold) ==
    {Len(out.value) : out \in findSimilarRules(RulesBefore, Val(repoCall).params.embedding,
                                               Val(repoCall).params.limit, threshold, "none")}

\* C24: for a fixed rule set, query embedding and limit, a search with a
\* greater threshold returns at most as many rules as one with a smaller
\* threshold.
C24_MonotonicInThreshold ==
    (Searched /\ Val(repoCall).threw = NULL) =>
       \A other \in Thresholds :
           /\ Val(repoCall).params.threshold <= other
              => \A n \in CountsAt(other) : n <= Len(Val(repoCall).value)
           /\ other <= Val(repoCall).params.threshold
              => \A n \in CountsAt(other) : Len(Val(repoCall).value) <= n

C24_Witness ==
    /\ Searched
    /\ Val(repoCall).threw = NULL
    /\ Val(repoCall).params.threshold = 0
    /\ Len(Val(repoCall).value) = 2
    /\ CountsAt(61) = {1}
    /\ CountsAt(101) = {0}

\* the rows of table that have the given id
RowsWithId(table, id) == {i \in 1..Len(table) : table[i].id = id}

\* C25: after a createRule that returned rule r, findRuleById(r.id) returns a
\* rule whose rule_text, category, context and created_from_instruction_id are
\* those passed to createRule; findRuleById of an id that no row was ever
\* inserted with returns null, and of any other id the row of that id.
C25_CreateRuleRoundTrip ==
    /\ (Called("createRule") /\ Val(repoCall).threw = NULL) =>
          /\ Val(repoCall).value # NULL
          /\ LET found == findRuleById(rules, Val(Val(repoCall).value).id)
             IN  /\ found # NULL
                 /\ found = Val(repoCall).value
                 /\ Val(found).rule_text = Val(repoCall).params.ruleText
                 /\ Val(found).category = Val(repoCall).params.category
                 /\ Val(found).context = Val(repoCall).params.context
                 /\ Val(found).created_from_instruction_id =
                       Val(repoCall).params.createdFromInstructionId
          /\ Cardinality(RowsWithId(rules, Val(Val(repoCall).value).id)) = 1
          /\ RowsWithId(Val(repoCall).before.rules, Val(Val(repoCall).value).id) = {}
    /\ Called("findRuleById") =>
          /\ Val(repoCall).threw = NULL
          /\ Val(repoCall).params.id > Len(rules) => Val(repoCall).value = NULL
          /\ Val(repoCall).params.id <= Len(rules) =>
                /\ Val(repoCall).value # NULL
                /\ \E i \in 1..Len(rules) :
                      /\ rules[i].id = Val(repoCall).params.id
                      /\ Val(Val(repoCall).value).id = rules[i].id
                      /\ Val(Val(repoCall).value).rule_text = rules[i].rule_text
                      /\ Val(Val(repoCall).value).category = rules[i].category
                      /\ Val(Val(repoCall).value).context = rules[i].context
                      /\ Val(Val(repoCall).value).created_from_instruction_id =
                            rules[i].created_from_instruction_id

C25_Witness ==
    /\ Called("createRule")
    /\ Val(repoCall).threw = NULL
    /\ Len(rules) = 2
    /\ Val(Val(repoCall).value).id = 2
    /\ Val(Val(repoCall).value).created_from_instruction_id = 1

\* C26 as stated: after every createRule that returned, the embedding stored
\* with the created row has exactly 1536 elements.
C26_StoredEmbeddingHas1536Elements ==
    (Called("createRule") /\ Val(repoCall).threw = NULL) =>
       \A i \in RowsWithId(rules, Val(Val(repoCall).value).id) :
           Val(rules[i].embedding).length = 1536

\* C27: every rule row has instructions_count 1, from the createRule that
\* inserted it on through every later step of the pipeline.
C27_InstructionsCountIsOne ==
    \A i \in 1..Len(rules) : rules[i].instructions_count = 1

C27_Witness ==
    /\ Len(rules) = 2
    /\ \A r \in Reqs : Succeeded(r)
    /\ \A i \in 1..Len(user_instructions) : user_instructions[i].rule_id # NULL

\* C28: a createInstruction(instruction, context) that returns has appended
\* exactly one row, with rule_id null, to user_instructions and changed
\* nothing else; it returns that row, which carries the given instruction and
\* context, an id no earlier row has and a timestamp, and findInstructionById
\* of that id returns the same entity.  findInstructionById of an id that no
\* row was ever inserted with returns null.
C28_CreateInstructionReturnsNewRow ==
    /\ (Called("createInstruction") /\ Val(repoCall).threw = NULL) =>
          /\ Len(user_instructions) = Len(Val(repoCall).before.user_instructions) + 1
          /\ SubSeq(user_instructions, 1, Len(user_instructions) - 1) =
                Val(repoCall).before.user_instructions
          /\ rules = Val(repoCall).before.rules
          /\ Val(repoCall).value = Some(user_instructions[Len(user_instructions)])
          /\ Val(Val(repoCall).value).rule_id = NULL
          /\ Val(Val(repoCall).value).instruction = Val(repoCall).params.instruction
          /\ Val(Val(repoCall).value).context = Val(repoCall).params.context
          /\ Val(Val(repoCall).value).inserted_at # NULL
          /\ RowsWithId(Val(repoCall).before.user_instructions,
                        Val(Val(repoCall).value).id) = {}
          /\ findInstructionById(user_instructions, Val(Val(repoCall).value).id) =
                Val(repoCall).value
    /\ Called("findInstructionById") =>
          /\ Val(repoCall).threw = NULL
          /\ Val(repoCall).params.id > Len(user_instructions) => Val(repoCall).value = NULL
          /\ Val(repoCall).params.id <= Len(user_instructions) =>
                /\ Val(repoCall).value # NULL
                /\ Val(Val(repoCall).value).id = Val(repoCall).params.id
                /\ \E i \in 1..Len(user_instructions) :
                      user_instructions[i] = Val(Val(repoCall).value)

C28_Witness ==
    /\ Called("createInstruction")
    /\ Val(repoCall).threw = NULL
    /\ Len(user_instructions) = 2
    /\ Val(Val(repoCall).value).id = 2
    /\ user_instructions[1].rule_id # NULL

\* C29: updateInstructionRuleId raises no error.  Called with an id that no
\* instruction has, it leaves both tables as they were; called with the id of
\* an instruction, it sets the rule_id of that row and leaves its other
\* columns, every other row and the rules table as they were.
C29_UpdateTouchesOnlyTheRow ==
    Called("updateInstructionRuleId") =>
       LET before == Val(repoCall).before.user_instructions
           instructionId == Val(repoCall).params.instructionId
       IN  /\ Val(repoCall).threw = NULL
           /\ rules = Val(repoCall).before.rules
           /\ Len(user_instructions) = Len(before)
           /\ RowsWithId(before, instructionId) = {} => user_instructions = before
           /\ \A i \in 1..Len(before) :
                 IF before[i].id = instructionId
                 THEN /\ user_instructions[i].rule_id = Some(Val(repoCall).params.ruleId)
                      /\ user_instructions[i].id = before[i].id
                      /\ user_instructions[i].instruction = before[i].instruction
                      /\ user_instructions[i].context = before[i].context
                      /\ user_instructions[i].inserted_at = before[i].inserted_at
                 ELSE user_instructions[i] = before[i]

C29_Witness ==
    /\ Called("updateInstructionRuleId")
    /\ RowsWithId(Val(repoCall).before.user_instructions,
                  Val(repoCall).params.instructionId) = {}
    /\ Len(user_instructions) = 2
    /\ user_instructions[1].rule_id = NULL
    /\ user_instructions[2].rule_id = Some(1)

\* the rules whose score against the embedding searched for by request r is
\* a number >= 0
NonNegative(r) ==
    {i \in 1..Len(rules) :
        LET score == relevance_score(Val(rules[i].embedding),
                                     Val(Val(embeddingResult[r]).embedding))
        IN  score # NULL /\ Val(score) >= 0}

SearchedWide ==
    /\ Searched
    /\ \/ Val(repoCall).params.limit < 0
       \/ Val(repoCall).params.limit >= Len(RulesBefore)
    /\ Val(repoCall).params.threshold <= 100

\* the stored rules whose embedding is the embedding searched for
OwnEmbedding ==
    {i \in 1..Len(RulesBefore) :
        Val(RulesBefore[i].embedding) = Val(repoCall).params.embedding}

\* the search returned row i of the table with the greatest score, 1.0
ReturnedWithFullScore(i) ==
    /\ Val(repoCall).threw = NULL
    /\ \E j \in 1..Len(Val(repoCall).value) :
          /\ Val(repoCall).value[j].id = RulesBefore[i].id
          /\ Val(repoCall).value[j].relevance_score = 100

AllZeros(vector) == \A j \in 1..Len(vector.head) : vector.head[j] = 0

\* C31 as stated: for every stored rule, findSimilarRules with that rule's
\* own stored embedding as the query, a limit large enough and a threshold
\* <= 1 returns that rule with a relevance_score of 1.0.
C31_SelfSimilarityOfEveryRule ==
    SearchedWide => \A i \in OwnEmbedding : ReturnedWithFullScore(i)

\* C31: for every stored rule whose embedding is not all zeros, in a table
\* whose embeddings all have the length of that embedding, findSimilarRules
\* with the rule's own stored embedding as the query, a limit large enough and
\* a threshold <= 1 returns that rule with a relevance_score of 1.0, the
\* greatest score of the answer.  A rule whose embedding is all zeros is not
\* returned for its own embedding, and when another stored embedding has
\* another length the search raises an error.
C31_SelfSimilarityOfNonZeroRule ==
    SearchedWide =>
       \A i \in OwnEmbedding :
           IF LengthsDiffer THEN Val(repoCall).threw # NULL
           ELSE IF AllZeros(Val(repoCall).params.embedding)
           THEN /\ Val(repoCall).threw = NULL
                /\ Val(repoCall).value = <<>>
           ELSE /\ ReturnedWithFullScore(i)
                /\ \A j \in 1..Len(Val(repoCall).value) :
                      Val(repoCall).value[j].relevance_score <= 100

C31_Witness ==
    /\ SearchedWide
    /\ ~LengthsDiffer
    /\ Len(RulesBefore) = 2
    /\ OwnEmbedding = {2}
    /\ ReturnedWithFullScore(2)
    /\ Len(Val(repoCall).value) = 2
    /\ Val(repoCall).value[2].relevance_score = 60

\* how far a request has come: the await it is suspended at, in the order of
\* the handler's statements
Rank(position) ==
    CASE position = "idle" -> 0
      [] position = "generateRule" -> 1
      [] position = "createInstruction" -> 2
      [] position = "generateEmbedding" -> 3
      [] position = "createRule" -> 4
      [] OTHER -> 5

\* the classifier answered with a rule
Generalizable(answer) == answer.success /\ answer.rule # NULL /\ answer.rule # UNDEFINED

\* C32: within one rememberDeveloperInstruction request every step runs at
\* most once and in the order classify, create instruction, generate
\* embedding, insert rule, link.  Each step of a request moves it forward; the
\* classifier answers once; an instruction row is inserted only on a
\* generalizable verdict; the embedding generator is called once, after the
\* request's instruction row exists; a rule row is inserted only on a usable
\* embedding; a link is written only after the request's rule row exists; and
\* a request that has ended does nothing more.
C32_StepsOnceAndInOrder ==
    [][\A r \in Reqs :
          IF pc'[r] = pc[r]
          THEN /\ ruleGenerationResult'[r] = ruleGenerationResult[r]
               /\ createdInstruction'[r] = createdInstruction[r]
               /\ embeddingCalls'[r] = embeddingCalls[r]
               /\ embeddingResult'[r] = embeddingResult[r]
               /\ rule'[r] = rule[r]
               /\ result'[r] = result[r]
          ELSE tool'[r] = "rememberDeveloperInstruction" =>
               /\ Rank(pc'[r]) > Rank(pc[r])
               /\ ruleGenerationResult'[r] # ruleGenerationResult[r] =>
                     /\ pc[r] = "generateRule"
                     /\ ruleGenerationResult[r] = NULL
               /\ user_instructions' # user_instructions /\ pc[r] # "createRule" =>
                     /\ pc[r] = "generateRule"
                     /\ Generalizable(Val(ruleGenerationResult'[r]))
                     /\ Len(user_instructions') = Len(user_instructions) + 1
                     /\ SubSeq(user_instructions', 1, Len(user_instructions)) =
                           user_instructions
               /\ embeddingCalls'[r] # embeddingCalls[r] =>
                     /\ pc[r] = "createInstruction"
                     /\ embeddingCalls[r] = 0
                     /\ embeddingCalls'[r] = 1
                     /\ createdInstruction[r] # NULL
                     /\ \E i \in 1..Len(user_instructions) :
                           user_instructions[i].id = Val(createdInstruction[r]).id
               /\ rules' # rules =>
                     /\ pc[r] = "generateEmbedding"
                     /\ Val(embeddingResult'[r]).success
                     /\ Val(embeddingResult'[r]).embedding \notin {NULL, UNDEFINED}
                     /\ Len(rules') = Len(rules) + 1
                     /\ SubSeq(rules', 1, Len(rules)) = rules
               /\ user_instructions' # user_instructions /\ pc[r] = "createRule" =>
                     /\ rule[r] # NULL
                     /\ \E j \in 1..Len(rules) : rules[j].id = Val(rule[r]).id
                     /\ Len(user_instructions') = Len(user_instructions)
                     /\ rules' = rules]_vars

C32_Witness ==
    \E r, q \in Reqs :
        /\ Succeeded(q)
        /\ Remembering(r)
        /\ pc[r] = "resolved"
        /\ error[r] = Some(StoreFault("UPDATE user_instructions"))
        /\ rule[r] # NULL
        /\ embeddingCalls[r] = 1
        /\ Len(rules) = 2

\* request r ended with the response to a not generalizable instruction
EndedAsNoOp(r) ==
    /\ pc[r] = "resolved"
    /\ Remembering(r)
    /\ ruleGenerationResult[r] # NULL
    /\ NotGeneralizable(Val(ruleGenerationResult[r]))

\* request r ended with the response to a failed step
EndedInFailure(r) ==
    /\ pc[r] = "resolved"
    /\ Remembering(r)
    /\ ruleGenerationResult[r] # NULL => ~NotGeneralizable(Val(ruleGenerationResult[r]))
    /\ \E m \in StepMessages : Contains(Text(r), m)

\* C33: when every outbound call and every store call returns or throws,
\* every request that was made ends (from some point on each request is
\* either not made or has its response): a rememberDeveloperInstruction
\* request in exactly one of success, no-op and failure, which it keeps; a
\* getRelevantRules request with a response.  A call of the embedding
\* generator returns after at most max(0, maxRetries) + 1 outbound calls, a
\* call of the classifier after at most max(0, maxRetries).
C33_EveryRequestEnds ==
    /\ <>[](/\ \A r \in Reqs : pc[r] = "idle" \/ (pc[r] = "resolved" /\ result[r] # NULL)
            /\ embeddingClient # NULL => embeddingClient.pc \in {"idle", "returned"}
            /\ llmClient # NULL => llmClient.pc \in {"idle", "returned"})
    /\ [](\A r \in Reqs :
            pc[r] = "resolved" /\ Remembering(r) =>
               /\ Succeeded(r) \/ EndedAsNoOp(r) \/ EndedInFailure(r)
               /\ ~(Succeeded(r) /\ EndedAsNoOp(r))
               /\ ~(Succeeded(r) /\ EndedInFailure(r))
               /\ ~(EndedAsNoOp(r) /\ EndedInFailure(r)))
    /\ [][\A r \in Reqs : pc[r] = "resolved" => pc'[r] = "resolved" /\ result'[r] = result[r]]_vars
    /\ [](embeddingClient # NULL =>
            embeddingClient.calls <=
               (IF embeddingClient.maxRetries > 0 THEN embeddingClient.maxRetries ELSE 0) + 1)
    /\ [](llmClient # NULL =>
            llmClient.calls <= (IF llmClient.maxRetries > 0 THEN llmClient.maxRetries ELSE 0))

C33_Witness ==
    \E r, q \in Reqs :
        /\ Succeeded(r)
        /\ tool[q] = "getRelevantRules"
        /\ pc[q] = "resolved"
        /\ Contains(Text(q), "Found ")

\* C34: under any interleaving of rememberDeveloperInstruction requests each
\* request links its own rows.  No two requests hold the same instruction row
\* or the same rule row; the rule a request holds originates from the
\* instruction that request holds; a successful request's instruction row
\* carries the id of its rule; and every link in user_instructions joins the
\* instruction and the rule of one and the same request.
C34_EachRequestLinksItsOwnRows ==
    /\ \A r, q \in Reqs :
          r # q =>
             /\ (createdInstruction[r] # NULL /\ createdInstruction[q] # NULL)
                => Val(createdInstruction[r]).id # Val(createdInstruction[q]).id
             /\ (Remembering(r) /\ Remembering(q) /\ rule[r] # NULL /\ rule[q] # NULL)
                => Val(rule[r]).id # Val(rule[q]).id
    /\ \A r \in Reqs :
          (Remembering(r) /\ rule[r] # NULL) =>
             /\ createdInstruction[r] # NULL
             /\ Val(rule[r]).created_from_instruction_id = Val(createdInstruction[r]).id
             /\ \A j \in 1..Len(rules) :
                   rules[j].id = Val(rule[r]).id
                   => rules[j].created_from_instruction_id = Val(createdInstruction[r]).id
    /\ \A r \in Reqs :
          Succeeded(r) =>
             \E i \in 1..Len(user_instructions) :
                /\ user_instructions[i].id = Val(createdInstruction[r]).id
                /\ user_instructions[i].rule_id = Some(Val(rule[r]).id)
    /\ \A i \in 1..Len(user_instructions) :
          user_instructions[i].rule_id # NULL =>
             \E r \in Reqs :
                /\ Succeeded(r)
                /\ Val(createdInstruction[r]).id = user_instructions[i].id
                /\ Val(rule[r]).id = Val(user_instructions[i].rule_id)

\* two successful requests whose store steps crossed
C34_Witness ==
    \E r, q \in Reqs :
        /\ Succeeded(r)
        /\ Succeeded(q)
        /\ Val(createdInstruction[r]).id < Val(createdInstruction[q]).id
        /\ Val(rule[r]).id > Val(rule[q]).id

\* C35: in every state reached through the handlers the relation between
\* instructions and rules is one-to-one: no rule is the rule_id of two
\* instructions, and an instruction's rule_id names a rule whose
\* created_from_instruction_id is that instruction.
C35_LinkIsOneToOne ==
    /\ \A i, k \in 1..Len(user_instructions) :
          (i # k /\ user_instructions[i].rule_id # NULL)
          => user_instructions[i].rule_id # user_instructions[k].rule_id
    /\ \A i \in 1..Len(user_instructions) :
          user_instructions[i].rule_id # NULL =>
             /\ \E j \in 1..Len(rules) : rules[j].id = Val(user_instructions[i].rule_id)
             /\ \A j \in 1..Len(rules) :
                   rules[j].id = Val(user_instructions[i].rule_id)
                   => rules[j].created_from_instruction_id = user_instructions[i].id

\* both instructions linked, each to the rule with the other number
C35_Witness ==
    /\ Len(user_instructions) = 2
    /\ Len(rules) = 2
    /\ \A i \in 1..2 :
          /\ user_instructions[i].id = i
          /\ user_instructions[i].rule_id = Some(3 - i)
          /\ rules[i].id = i

\* every rule originates from an instruction row of its own
OriginsAreDistinctInstructions(instructionsTable, rulesTable) ==
    /\ \A j \in 1..Len(rulesTable) :
          \E i \in 1..Len(instructionsTable) :
             instructionsTable[i].id = rulesTable[j].created_from_instruction_id
    /\ \A j, k \in 1..Len(rulesTable) :
          j # k => rulesTable[j].created_from_instruction_id
                   # rulesTable[k].created_from_instruction_id

\* C36: in every state reached through the handlers every rule's
\* created_from_instruction_id names an existing instruction row, no two
\* rules have the same originating instruction, and there are no more rule
\* rows than instruction rows; and no step changes the
\* created_from_instruction_id of a rule that exists.
C36_OriginIsFixedAndUnique ==
    /\ [](/\ OriginsAreDistinctInstructions(user_instructions, rules)
          /\ Len(rules) <= Len(user_instructions))
    /\ [][\A j \in 1..Len(rules) :
             /\ j <= Len(rules')
             /\ rules'[j].id = rules[j].id
             /\ rules'[j].created_from_instruction_id
                = rules[j].created_from_instruction_id]_vars

\* fewer rules than instructions, the rule being that of the later instruction
C36_Witness ==
    /\ Len(user_instructions) = 2
    /\ Len(rules) = 1
    /\ rules[1].created_from_instruction_id = 2
    /\ \E r \in Reqs : Succeeded(r)

\* C37: no operation of the handlers modifies or deletes a rule row that
\* exists: under every step each row of rules stays in its place with all its
\* columns (rule_text, category, context, embedding,
\* created_from_instruction_id, instructions_count, last_applied and the
\* rest); and a step of a getRelevantRules request, whatever its outcome,
\* leaves both tables as they are.
C37_RuleRowsAreNeverModified ==
    [][/\ \A j \in 1..Len(rules) :
             /\ j <= Len(rules')
             /\ rules'[j] = rules[j]
       /\ \A r \in Reqs :
             (tool'[r] = "getRelevantRules" /\ pc'[r] # pc[r])
             => (user_instructions' = user_instructions /\ rules' = rules)]_vars

\* a request has stored a rule and a search has found it: the row is as
\* it was inserted
C37_Witness ==
    \E r, q \in Reqs :
        /\ Succeeded(q)
        /\ tool[r] = "getRelevantRules"
        /\ pc[r] = "resolved"
        /\ Contains(Text(r), "Found ")
        /\ Len(rules) = 1
        /\ rules[1].instructions_count = 1
        /\ rules[1].last_applied = NULL
        /\ rules[1].created_from_instruction_id = Val(createdInstruction[q]).id

\* C38: the link always succeeds once createRule has returned the rule row.
\* A request that got its rule row back and has ended, ended with the
\* success response and with its instruction's rule_id set to that rule, never
\* with a failure response; and when every request that was made has ended,
\* the originating instruction of every such rule is linked to it.
C38_LinkAlwaysSucceeds ==
    /\ \A r \in Reqs :
          (Remembering(r) /\ pc[r] = "resolved" /\ rule[r] # NULL) =>
             /\ Succeeded(r)
             /\ \A m \in StepMessages : ~Contains(Text(r), m)
             /\ \E i \in 1..Len(user_instructions) :
                   /\ user_instructions[i].id = Val(createdInstruction[r]).id
                   /\ user_instructions[i].rule_id = Some(Val(rule[r]).id)
    /\ (\A r \in Reqs : pc[r] \in {"idle", "resolved"}) =>
          \A j \in 1..Len(rules) :
             (\E r \in Reqs : Remembering(r) /\ rule[r] # NULL /\ Val(rule[r]).id = rules[j].id)
             => \E i \in 1..Len(user_instructions) :
                   /\ user_instructions[i].id = rules[j].created_from_instruction_id
                   /\ user_instructions[i].rule_id = Some(rules[j].id)

\* C39: with llmMaxRetries <= 0 generateRule makes no outbound call and no
\* delay, and returns success = false with the error 'Unexpected error in
\* rule generation'; the handler, given this answer, ends with 'Failed to
\* generate abstract rule: Unexpected error in rule generation' and leaves
\* user_instructions as it is, without a created instruction.
C39_NoAttemptsMeansNoCall ==
    (llmClient # NULL /\ llmClient.maxRetries <= 0 /\ llmClient.pc # "idle") =>
       /\ llmClient.pc = "returned"
       /\ llmClient.calls = 0
       /\ llmClient.outcomes = <<>>
       /\ llmClient.sleeps = <<>>
       /\ ~Val(llmClient.result).success
       /\ Val(llmClient.result).error = Some(<<"Unexpected error in rule generation">>)
       /\ \A instruction \in Instructions, context \in Contexts,
             fault \in {"none", "insert", "select"} :
             LET next == rememberClassified(Val(llmClient.result), user_instructions,
                                            instruction, context, fault)
             IN  /\ next.step.pc = "resolved"
                 /\ Val(next.step.result) = <<"Failed to generate abstract rule", ": ",
                                              <<"Unexpected error in rule generation">>>>
                 /\ next.step.error = NULL
                 /\ next.table = user_instructions
                 /\ next.value = NULL

C39_Witness ==
    /\ llmClient # NULL
    /\ llmClient.maxRetries = 0
    /\ llmClient.version = "structured"
    /\ llmClient.pc = "returned"
    /\ llmClient.calls = 0
    /\ Val(llmClient.result).rule = NULL

====
